---- MODULE Spec2Model ----
(***************************************************************************)
(* Model of the PDF report parser of nomad-cau-plugin                      *)
(* (src/nomad_cau_plugin/parsers/pdf_extract.py).                          *)
(*                                                                         *)
(* Text is a sequence of one-character strings, so that trimming,          *)
(* whitespace splitting, substring tests and the regular expressions of    *)
(* the source are computed character by character.  Python indices are     *)
(* kept 0-based in the state (chemistry_start, data_start, ...); the       *)
(* operators Slice and At convert to the 1-based sequences of TLA+.        *)
(***************************************************************************)
EXTENDS Integers, Sequences, FiniteSets, TLC

(***************************************************************************)
(* Python built-ins used by the parser                                     *)
(***************************************************************************)

\* The value None of an index variable (indices are >= 0).
None == -1

Digits == {"0","1","2","3","4","5","6","7","8","9"}

Letters ==
    {"a","b","c","d","e","f","g","h","i","j","k","l","m",
     "n","o","p","q","r","s","t","u","v","w","x","y","z",
     "A","B","C","D","E","F","G","H","I","J","K","L","M",
     "N","O","P","Q","R","S","T","U","V","W","X","Y","Z"}

\* \d of the re module
IsDigit(c) == c \in Digits

\* \s of the re module, and the characters str.strip() / str.split() remove
IsSpace(c) == c \in {" ", "\t", "\n", "\r"}

\* [A-Za-z]
IsAlpha(c) == c \in Letters

\* s[a:b] for 0 <= a, 0 <= b (Python clamps the bounds to len(s))
Slice(s, a, b) ==
    LET hi == IF b > Len(s) THEN Len(s) ELSE b
    IN  IF a >= hi THEN << >> ELSE SubSeq(s, a + 1, hi)

\* s[a:]
SliceFrom(s, a) == Slice(s, a, Len(s))

\* s[i] for 0 <= i < len(s)
At(s, i) == s[i + 1]

\* s[-k] for 1 <= k <= len(s)
FromEnd(s, k) == s[Len(s) - k + 1]

RECURSIVE LStrip(_)
LStrip(s) ==
    IF s = << >> THEN s
    ELSE IF IsSpace(Head(s)) THEN LStrip(Tail(s)) ELSE s

RECURSIVE RStrip(_)
RStrip(s) ==
    IF s = << >> THEN s
    ELSE IF IsSpace(s[Len(s)]) THEN RStrip(SubSeq(s, 1, Len(s) - 1)) ELSE s

\* str.strip()
Strip(s) == RStrip(LStrip(s))

\* The j-th smallest element of a set of numbers
Nth(P, j) == CHOOSE p \in P : Cardinality({q \in P : q < p}) = j - 1

\* str.split(sep) for a one-character separator: the pieces between the
\* separators, empty pieces included ("a\n" gives "a" and "").
SplitOn(s, sep) ==
    LET P == {k \in 1..Len(s) : s[k] = sep}
        n == Cardinality(P)
        lo(j) == IF j = 1 THEN 1 ELSE Nth(P, j - 1) + 1
        hi(j) == IF j = n + 1 THEN Len(s) ELSE Nth(P, j) - 1
    IN  [j \in 1..(n + 1) |-> SubSeq(s, lo(j), hi(j))]

\* str.split(sep, 1): at most one split, at the first separator
SplitOnce(s, sep) ==
    IF \E k \in 1..Len(s) : s[k] = sep
    THEN LET k == CHOOSE j \in 1..Len(s) :
                      s[j] = sep /\ \A h \in 1..(j - 1) : s[h] # sep
         IN  << SubSeq(s, 1, k - 1), SubSeq(s, k + 1, Len(s)) >>
    ELSE << s >>

\* str.split(): the maximal runs of non-whitespace characters
Split(s) ==
    LET first == {k \in 1..Len(s) :
                     ~IsSpace(s[k]) /\ (k = 1 \/ IsSpace(s[k - 1]))}
        last == {k \in 1..Len(s) :
                    ~IsSpace(s[k]) /\ (k = Len(s) \/ IsSpace(s[k + 1]))}
    IN  [j \in 1..Cardinality(first) |->
            SubSeq(s, Nth(first, j), Nth(last, j))]

\* sep.join(parts)
RECURSIVE Join(_, _)
Join(parts, sep) ==
    IF parts = << >> THEN << >>
    ELSE IF Len(parts) = 1 THEN parts[1]
    ELSE parts[1] \o sep \o Join(Tail(parts), sep)

\* "sub in s"
Contains(s, sub) ==
    \E p \in 0..(Len(s) - Len(sub)) : SubSeq(s, p + 1, p + Len(sub)) = sub

\* s.endswith(suffix)
EndsWith(s, suffix) ==
    /\ Len(s) >= Len(suffix)
    /\ SubSeq(s, Len(s) - Len(suffix) + 1, Len(s)) = suffix

\* The number of leading characters of s that satisfy the class test
RECURSIVE DigitRun(_)
DigitRun(s) ==
    IF s = << >> \/ ~IsDigit(Head(s)) THEN 0 ELSE 1 + DigitRun(Tail(s))

RECURSIVE SpaceRun(_)
SpaceRun(s) ==
    IF s = << >> \/ ~IsSpace(Head(s)) THEN 0 ELSE 1 + SpaceRun(Tail(s))

RECURSIVE AlphaRun(_)
AlphaRun(s) ==
    IF s = << >> \/ ~IsAlpha(Head(s)) THEN 0 ELSE 1 + AlphaRun(Tail(s))

\* The value of a digit character
DigitValue(c) ==
    CHOOSE n \in 0..9 : <<"0","1","2","3","4","5","6","7","8","9">>[n + 1] = c

\* The number written by a sequence of digits
RECURSIVE DigitsValue(_)
DigitsValue(ds) ==
    IF ds = << >> THEN 0
    ELSE 10 * DigitsValue(SubSeq(ds, 1, Len(ds) - 1)) + DigitValue(ds[Len(ds)])

\* float(token) for a token made of a sign, digits and a decimal point: the
\* number is num / 10^frac; ok = FALSE is the ValueError of any other token
Float(token) ==
    LET signed == token # << >> /\ Head(token) \in {"-", "+"}
        body == IF signed THEN Tail(token) ELSE token
        points == {k \in 1..Len(body) : body[k] = "."}
        digits == SelectSeq(body, IsDigit)
        wellFormed ==
            /\ digits # << >>
            /\ Cardinality(points) <= 1
            /\ \A k \in 1..Len(body) : IsDigit(body[k]) \/ body[k] = "."
    IN  IF wellFormed
        THEN [ok |-> TRUE,
              num |-> (IF signed /\ Head(token) = "-" THEN -1 ELSE 1)
                          * DigitsValue(digits),
              frac |-> IF points = {} THEN 0
                       ELSE Len(body) - (CHOOSE k \in points : TRUE)]
        ELSE [ok |-> FALSE, num |-> 0, frac |-> 0]

(***************************************************************************)
(* The regular expressions of the parser                                   *)
(***************************************************************************)

\* re.match(r'^\d+\s', line): digits, then one whitespace character
IsStepLine(line) ==
    LET d == DigitRun(line)
    IN  d >= 1 /\ d < Len(line) /\ IsSpace(line[d + 1])

\* '.+' at the start of s: '.' is any character but the newline
RECURSIVE DotRun(_)
DotRun(s) ==
    IF s = << >> \/ Head(s) = "\n" THEN 0 ELSE 1 + DotRun(Tail(s))

\* Fault: the pattern ^(\d+)\s(\S.*), which allows one whitespace
\* character only after the step number
StepMatchOneSpace(entry) ==
    LET d == DigitRun(entry)
        rest == SliceFrom(entry, d + 1)
    IN  IF d = 0 \/ d >= Len(entry) \/ ~IsSpace(At(entry, d))
              \/ rest = << >> \/ IsSpace(Head(rest))
        THEN [matched |-> FALSE, group1 |-> << >>, group2 |-> << >>]
        ELSE [matched |-> TRUE,
              group1 |-> Slice(entry, 0, d),
              group2 |-> Slice(rest, 0, DotRun(rest))]

\* re.match(r'^(\d+)\s+(.+)', entry).  \d+ and \s+ are greedy; \s+ gives
\* characters back only when nothing is left for '.+'.  matched = FALSE is
\* the result None.
StepMatch(entry) ==
    LET d == DigitRun(entry)
        w == SpaceRun(SliceFrom(entry, d))
        Q == {q \in (d + 1)..(d + w) : q < Len(entry) /\ At(entry, q) # "\n"}
    IN  IF d = 0 \/ w = 0 \/ Q = {}
        THEN [matched |-> FALSE, group1 |-> << >>, group2 |-> << >>]
        ELSE LET q == CHOOSE x \in Q : \A y \in Q : y <= x
                 rest == SliceFrom(entry, q)
             IN  [matched |-> TRUE,
                  group1 |-> Slice(entry, 0, d),
                  group2 |-> Slice(rest, 0, DotRun(rest))]

\* Whether \d{2}:\d{2}:\d{2} matches s at offset p
TimeAt(s, p) ==
    /\ p + 8 <= Len(s)
    /\ IsDigit(At(s, p)) /\ IsDigit(At(s, p + 1)) /\ At(s, p + 2) = ":"
    /\ IsDigit(At(s, p + 3)) /\ IsDigit(At(s, p + 4)) /\ At(s, p + 5) = ":"
    /\ IsDigit(At(s, p + 6)) /\ IsDigit(At(s, p + 7))

\* re.finditer(time_pattern, s): the start offsets of the non-overlapping
\* matches, found left to right (the search resumes at the end of a match)
RECURSIVE TimeMatchesFrom(_, _)
TimeMatchesFrom(s, p) ==
    LET Q == {q \in p..(Len(s) - 8) : TimeAt(s, q)}
    IN  IF Q = {} THEN << >>
        ELSE LET q == CHOOSE x \in Q : \A y \in Q : x <= y
             IN  << q >> \o TimeMatchesFrom(s, q + 8)

TimeMatches(s) == TimeMatchesFrom(s, 0)

\* match.start() and match.end() of a match found at offset m
MatchStart(m) == m
MatchEnd(m) == m + 8

\* re.findall(time_pattern, s): the matched substrings
FindAllTimes(s) ==
    LET ms == TimeMatches(s)
    IN  [k \in 1..Len(ms) |-> Slice(s, MatchStart(ms[k]), MatchEnd(ms[k]))]

\* re.match(r'^[A-Za-z]+\s*:', line)
IsComponentLine(line) ==
    LET a == AlphaRun(line)
        w == SpaceRun(SliceFrom(line, a))
    IN  a >= 1 /\ a + w < Len(line) /\ At(line, a + w) = ":"

(***************************************************************************)
(* Records of the three tables (rows of the returned DataFrames)           *)
(***************************************************************************)

RecipeRow(step_num, action_text, start, end) ==
    ("#" :> step_num) @@ ("Action/Annotation" :> action_text)
        @@ ("Start Time" :> start) @@ ("End Time" :> end)

SetupRow(component, description) ==
    ("Component" :> component) @@ ("Description" :> description)

(***************************************************************************)
(* Section Locator                                                         *)
(***************************************************************************)
MarkerChemistry == <<"2"," ","C","h","e","m","i","s","t","r","y">>
MarkerSetup == <<"3"," ","S","e","t","u","p">>
MarkerRecipe == <<"4"," ","R","e","c","i","p","e">>
MarkerTrend == <<"5"," ","T","r","e","n","d"," ","G","r","a","p","h","s">>

\* Fault: the marker is looked for inside the line (marker in line)
IsMarkerContained(line, marker) == Contains(line, marker)

\* line.strip() == marker
IsMarker(line, marker) == Strip(line) = marker

\* Fault: a section whose closing marker is missing runs to the end of the
\* stream
SectionToEnd(ls, start, end) ==
    IF start # None
    THEN Slice(ls, start, IF end # None THEN end ELSE Len(ls))
    ELSE << >>

\* Fault: the closing marker line is taken into the section
SectionThroughMarker(ls, start, end) ==
    IF start # None /\ end # None THEN Slice(ls, start, end + 1) ELSE << >>

\* Fault: markers out of order are put in order before slicing
SectionUnordered(ls, start, end) ==
    IF start # None /\ end # None
    THEN IF start <= end THEN Slice(ls, start, end) ELSE Slice(ls, end, start)
    ELSE << >>

\* lines[start:end] if start is not None and end is not None else []
Section(ls, start, end) ==
    IF start # None /\ end # None THEN Slice(ls, start, end) ELSE << >>

(***************************************************************************)
(* Chemistry Table Builder: one line of chemistry_lines[2:]                *)
(***************************************************************************)

\* Fault: a line of fewer than 8 tokens gives a record of its text
ChemistryRowsOfShortLine(raw) ==
    LET line == Strip(raw)
        parts == Split(line)
    IN  IF line = << >> THEN << >>
        ELSE IF Len(parts) >= 8
        THEN << ("Chemical" :> Join(Slice(parts, 0, Len(parts) - 8), <<" ">>))
                    @@ ("Type" :> FromEnd(parts, 8))
                    @@ ("Mol Weight" :>
                           FromEnd(parts, 6) \o <<" ">> \o FromEnd(parts, 7))
                    @@ ("Stoic. Coeff" :> FromEnd(parts, 5))
                    @@ ("Actual Moles" :> FromEnd(parts, 4))
                    @@ ("Actual Amount" :>
                           FromEnd(parts, 2) \o <<" ">> \o FromEnd(parts, 3))
                    @@ ("Conc. Notes" :> FromEnd(parts, 1)) >>
        ELSE << ("Chemical" :> line) >>

\* The rows (none or one) that the loop body appends to chemistry_data
ChemistryRows(raw) ==
    LET line == Strip(raw)
        parts == Split(line)
    IN  IF line = << >> THEN << >>
        ELSE IF Len(parts) >= 8
        THEN LET conc_notes == FromEnd(parts, 1)
                 actual_amount_num == FromEnd(parts, 2)
                 actual_amount_unit == FromEnd(parts, 3)
                 actual_moles == FromEnd(parts, 4)
                 stoic_coeff == FromEnd(parts, 5)
                 mol_weight == FromEnd(parts, 6) \o <<" ">> \o FromEnd(parts, 7)
                 type_col == FromEnd(parts, 8)
                 chemical_name ==
                     Join(Slice(parts, 0, Len(parts) - 8), <<" ">>)
             IN  << ("Chemical" :> chemical_name)
                    @@ ("Type" :> type_col)
                    @@ ("Mol Weight" :> mol_weight)
                    @@ ("Stoic. Coeff" :> stoic_coeff)
                    @@ ("Actual Moles" :> actual_moles)
                    @@ ("Actual Amount" :>
                           actual_amount_num \o <<" ">> \o actual_amount_unit)
                    @@ ("Conc. Notes" :> conc_notes) >>
        ELSE << >>

(***************************************************************************)
(* Setup Table Builder: one line of setup_lines                            *)
(***************************************************************************)
WordDescription == <<"D","e","s","c","r","i","p","t","i","o","n">>

\* Fault: a continuation line is appended without the separating space
SetupStepNoSpace(data, component, description, raw) ==
    LET line == Strip(raw)
        same == [data |-> data, component |-> component,
                 description |-> description]
    IN  IF line = << >> THEN same
        ELSE IF IsComponentLine(line)
        THEN LET parts == SplitOnce(line, ":")
             IN  [data |-> IF component # << >>
                           THEN Append(data,
                                       SetupRow(component, Strip(description)))
                           ELSE data,
                  component |-> Strip(parts[1]),
                  description |-> IF Len(parts) > 1
                                  THEN Strip(parts[2]) ELSE << >>]
        ELSE IF component = << >> /\ line # << >>
                    /\ ~EndsWith(line, WordDescription)
        THEN [data |-> data, component |-> line, description |-> << >>]
        ELSE IF component # << >>
        THEN [data |-> data, component |-> component,
              description |-> description \o line]
        ELSE same

\* Fault: a line ending with "Description" opens a component too
SetupStepHeaderOpens(data, component, description, raw) ==
    LET line == Strip(raw)
        same == [data |-> data, component |-> component,
                 description |-> description]
    IN  IF line = << >> THEN same
        ELSE IF IsComponentLine(line)
        THEN LET parts == SplitOnce(line, ":")
             IN  [data |-> IF component # << >>
                           THEN Append(data,
                                       SetupRow(component, Strip(description)))
                           ELSE data,
                  component |-> Strip(parts[1]),
                  description |-> IF Len(parts) > 1
                                  THEN Strip(parts[2]) ELSE << >>]
        ELSE IF component = << >> /\ line # << >>
        THEN [data |-> data, component |-> line, description |-> << >>]
        ELSE IF component # << >>
        THEN [data |-> data, component |-> component,
              description |-> description \o <<" ">> \o line]
        ELSE same

\* Fault: a standalone line opens a component while one is open, which
\* is dropped
SetupStepStandaloneReopens(data, component, description, raw) ==
    LET line == Strip(raw)
        same == [data |-> data, component |-> component,
                 description |-> description]
    IN  IF line = << >> THEN same
        ELSE IF IsComponentLine(line)
        THEN LET parts == SplitOnce(line, ":")
             IN  [data |-> IF component # << >>
                           THEN Append(data,
                                       SetupRow(component, Strip(description)))
                           ELSE data,
                  component |-> Strip(parts[1]),
                  description |-> IF Len(parts) > 1
                                  THEN Strip(parts[2]) ELSE << >>]
        ELSE IF line # << >> /\ ~EndsWith(line, WordDescription)
        THEN [data |-> data, component |-> line, description |-> << >>]
        ELSE IF component # << >>
        THEN [data |-> data, component |-> component,
              description |-> description \o <<" ">> \o line]
        ELSE same

\* The loop body: the new values of setup_data, current_component and
\* current_description.  current_component = << >> stands for None (the
\* code only tests its truth value, and a component name is never empty).
SetupStep(data, component, description, raw) ==
    LET line == Strip(raw)
        same == [data |-> data, component |-> component,
                 description |-> description]
    IN  IF line = << >> THEN same
        ELSE IF IsComponentLine(line)
        THEN LET parts == SplitOnce(line, ":")
             IN  [data |-> IF component # << >>
                           THEN Append(data,
                                       SetupRow(component, Strip(description)))
                           ELSE data,
                  component |-> Strip(parts[1]),
                  description |-> IF Len(parts) > 1
                                  THEN Strip(parts[2]) ELSE << >>]
        ELSE IF component = << >> /\ line # << >>
                    /\ ~EndsWith(line, WordDescription)
        THEN [data |-> data, component |-> line, description |-> << >>]
        ELSE IF component # << >>
        THEN [data |-> data, component |-> component,
              description |-> description \o <<" ">> \o line]
        ELSE same

(***************************************************************************)
(* Recipe Entry Reconstructor: one line of recipe_lines[data_start:]       *)
(***************************************************************************)

\* "#" in line and "Action" in line and "Start" in line and "End" in line
IsHeaderRow(line) ==
    /\ Contains(line, <<"#">>)
    /\ Contains(line, <<"A","c","t","i","o","n">>)
    /\ Contains(line, <<"S","t","a","r","t">>)
    /\ Contains(line, <<"E","n","d">>)

\* Fault: a new step line replaces the current entry without saving it
ReconstructStepDropsEntry(entries, entry, raw) ==
    LET line == Strip(raw)
    IN  IF line = << >> THEN [full_entries |-> entries, current_entry |-> entry]
        ELSE IF IsStepLine(line)
        THEN [full_entries |-> entries, current_entry |-> line]
        ELSE [full_entries |-> entries,
              current_entry |-> IF entry # << >>
                                THEN entry \o <<" ">> \o line ELSE entry]

\* Fault: a blank line ends the entry being built
ReconstructStepBlankEnds(entries, entry, raw) ==
    LET line == Strip(raw)
    IN  IF line = << >>
        THEN [full_entries |-> IF entry # << >>
                               THEN Append(entries, Strip(entry)) ELSE entries,
              current_entry |-> << >>]
        ELSE IF IsStepLine(line)
        THEN [full_entries |-> IF entry # << >>
                               THEN Append(entries, Strip(entry)) ELSE entries,
              current_entry |-> line]
        ELSE [full_entries |-> entries,
              current_entry |-> IF entry # << >>
                                THEN entry \o <<" ">> \o line ELSE entry]

\* The loop body: the new values of full_entries and current_entry
ReconstructStep(entries, entry, raw) ==
    LET line == Strip(raw)
    IN  IF line = << >> THEN [full_entries |-> entries, current_entry |-> entry]
        ELSE IF IsStepLine(line)
        THEN [full_entries |-> IF entry # << >>
                               THEN Append(entries, Strip(entry)) ELSE entries,
              current_entry |-> line]
        ELSE [full_entries |-> entries,
              current_entry |-> IF entry # << >>
                                THEN entry \o <<" ">> \o line ELSE entry]

\* After the loop: the last entry is added
ReconstructEnd(entries, entry) ==
    IF entry # << >> THEN Append(entries, Strip(entry)) ELSE entries

(***************************************************************************)
(* Recipe Entry Parser                                                     *)
(***************************************************************************)

\* Fault: the first time token is taken as the start time (times[0])
start_time_first(times) == times[1]

\* times[-2] and times[-1]
start_time(times) == FromEnd(times, 2)
end_time(times) == FromEnd(times, 1)

\* Fault: the action text is cut at the last time token, not at the
\* second-to-last
RecipeActionTextCutAtLast(remaining) ==
    LET time_matches == TimeMatches(remaining)
    IN  IF Len(time_matches) >= 2
        THEN LET last_time_match == FromEnd(time_matches, 1)
                 action_text_before_times ==
                     Strip(Slice(remaining, 0, MatchStart(last_time_match)))
                 text_after_end_time ==
                     Strip(SliceFrom(remaining, MatchEnd(last_time_match)))
             IN  IF text_after_end_time # << >>
                 THEN action_text_before_times \o <<" ">>
                          \o text_after_end_time
                 ELSE action_text_before_times
        ELSE remaining

\* extract_recipe_from_pdf: the action text of an entry with two or more
\* time tokens
RecipeActionText(remaining) ==
    LET time_matches == TimeMatches(remaining)
    IN  IF Len(time_matches) >= 2
        THEN LET last_time_match == FromEnd(time_matches, 1)
                 second_last_time_match == FromEnd(time_matches, 2)
                 action_text_before_times ==
                     Strip(Slice(remaining, 0,
                                 MatchStart(second_last_time_match)))
                 text_after_end_time ==
                     Strip(SliceFrom(remaining, MatchEnd(last_time_match)))
             IN  IF text_after_end_time # << >>
                 THEN action_text_before_times \o <<" ">>
                          \o text_after_end_time
                 ELSE action_text_before_times
        ELSE remaining

\* extract_tables_from_report: the action text of an entry with two or more
\* time tokens
TablesActionText(remaining) ==
    LET time_matches == TimeMatches(remaining)
    IN  IF Len(time_matches) >= 2
        THEN LET second_last_time_match == FromEnd(time_matches, 2)
             IN  Strip(Slice(remaining, 0,
                             MatchStart(second_last_time_match)))
        ELSE remaining

\* extract_recipe_from_pdf: the rows (none or one) appended to recipe_data
\* for one entry of full_entries
RecipeParseEntry(entry) ==
    LET step_match == StepMatch(entry)
        step_num == step_match.group1
        remaining == step_match.group2
        times == FindAllTimes(remaining)
    IN  IF step_match.matched
        THEN IF Len(times) >= 2
             THEN << RecipeRow(step_num, RecipeActionText(remaining),
                               start_time(times), end_time(times)) >>
             ELSE << RecipeRow(step_num, remaining, << >>, << >>) >>
        ELSE << >>

\* Fault: a single time token is cut off the action text
TablesParseEntryCutsSingleTime(entry) ==
    LET step_match == StepMatch(entry)
        step_num == step_match.group1
        remaining == step_match.group2
        times == FindAllTimes(remaining)
    IN  IF step_match.matched
        THEN IF Len(times) >= 2
             THEN << RecipeRow(step_num, TablesActionText(remaining),
                               start_time(times), end_time(times)) >>
             ELSE IF Len(times) = 1
             THEN << RecipeRow(step_num,
                               Strip(Slice(remaining, 0,
                                           MatchStart(TimeMatches(remaining)[1]))),
                               << >>, << >>) >>
             ELSE << RecipeRow(step_num, remaining, << >>, << >>) >>
        ELSE << >>

\* extract_tables_from_report: the same for its copy of the loop
TablesParseEntry(entry) ==
    LET step_match == StepMatch(entry)
        step_num == step_match.group1
        remaining == step_match.group2
        times == FindAllTimes(remaining)
    IN  IF step_match.matched
        THEN IF Len(times) >= 2
             THEN << RecipeRow(step_num, TablesActionText(remaining),
                               start_time(times), end_time(times)) >>
             ELSE << RecipeRow(step_num, remaining, << >>, << >>) >>
        ELSE << >>

(***************************************************************************)
(* Documents                                                               *)
(*                                                                         *)
(* The text lines the documents are made of: the section markers and their *)
(* near misses, chemistry rows, setup lines and recipe lines.              *)
(***************************************************************************)

\* 'Name Type MolWt Stoic Moles Amount Unit Conc'
ChemHeader1 ==
    <<"N","a","m","e"," ","T","y","p","e"," ","M","o","l","W","t"," ","S","t",
      "o","i","c"," ","M","o","l","e","s"," ","A","m","o","u","n","t"," ","U",
      "n","i","t"," ","C","o","n","c">>

\* '(header2)'
ChemHeader2 ==
    <<"(","h","e","a","d","e","r","2",")">>

\* 'EuCl3 Other 50 g/mol - 0.4 20 g 100 w/w%'
ChemEuCl3 ==
    <<"E","u","C","l","3"," ","O","t","h","e","r"," ","5","0"," ","g","/","m",
      "o","l"," ","-"," ","0",".","4"," ","2","0"," ","g"," ","1","0","0"," ",
      "w","/","w","%">>

\* 'Eu(NO3)3 in EtOH Other 50 g/mol - 0 0 g 100 w/w%'
ChemUnused ==
    <<"E","u","(","N","O","3",")","3"," ","i","n"," ","E","t","O","H"," ","O",
      "t","h","e","r"," ","5","0"," ","g","/","m","o","l"," ","-"," ","0"," ",
      "0"," ","g"," ","1","0","0"," ","w","/","w","%">>

\* 'Water Solvent 18 g/mol - - 5 g 100 w/w%'
ChemNoMoles ==
    <<"W","a","t","e","r"," ","S","o","l","v","e","n","t"," ","1","8"," ","g",
      "/","m","o","l"," ","-"," ","-"," ","5"," ","g"," ","1","0","0"," ","w",
      "/","w","%">>

\* 'NaOH Other 40 g/mol'
ChemShort ==
    <<"N","a","O","H"," ","O","t","h","e","r"," ","4","0"," ","g","/","m","o",
      "l">>

\* '50 g/mol - 0.1 4 g 100 w/w%'
ChemEight ==
    <<"5","0"," ","g","/","m","o","l"," ","-"," ","0",".","1"," ","4"," ","g",
      " ","1","0","0"," ","w","/","w","%">>

\* 'Reactor: 500 mL glass vessel'
SetupReactor ==
    <<"R","e","a","c","t","o","r",":"," ","5","0","0"," ","m","L"," ","g","l",
      "a","s","s"," ","v","e","s","s","e","l">>

\* 'with baffle'
SetupBaffle ==
    <<"w","i","t","h"," ","b","a","f","f","l","e">>

\* 'Component Description'
SetupHeader ==
    <<"C","o","m","p","o","n","e","n","t"," ","D","e","s","c","r","i","p","t",
      "i","o","n">>

\* 'Stirrer'
SetupStirrer ==
    <<"S","t","i","r","r","e","r">>

\* '  Lid :'
SetupLid ==
    <<" "," ","L","i","d"," ",":">>

\* 'pH_1: probe'
SetupProbe ==
    <<"p","H","_","1",":"," ","p","r","o","b","e">>

\* '# Action/Annotation Start Time End Time'
RecipeHeader ==
    <<"#"," ","A","c","t","i","o","n","/","A","n","n","o","t","a","t","i","o",
      "n"," ","S","t","a","r","t"," ","T","i","m","e"," ","E","n","d"," ","T",
      "i","m","e">>

\* '7 Heat to target and hold'
RecHeat ==
    <<"7"," ","H","e","a","t"," ","t","o"," ","t","a","r","g","e","t"," ","a",
      "n","d"," ","h","o","l","d">>

\* '1 Add water 10:00:00 10:05:00'
RecAdd ==
    <<"1"," ","A","d","d"," ","w","a","t","e","r"," ","1","0",":","0","0",":",
      "0","0"," ","1","0",":","0","5",":","0","0">>

\* '2 Stir 10:05:00 10:10:00 slowly'
RecStir ==
    <<"2"," ","S","t","i","r"," ","1","0",":","0","5",":","0","0"," ","1","0",
      ":","1","0",":","0","0"," ","s","l","o","w","l","y">>

\* '3 Cool 11:00:00'
RecCool ==
    <<"3"," ","C","o","o","l"," ","1","1",":","0","0",":","0","0">>

\* '4 Wait 09:00:00 then 10:10:00 10:20:00'
RecWait ==
    <<"4"," ","W","a","i","t"," ","0","9",":","0","0",":","0","0"," ","t","h",
      "e","n"," ","1","0",":","1","0",":","0","0"," ","1","0",":","2","0",":",
      "0","0">>

\* 'and hold'
RecHold ==
    <<"a","n","d"," ","h","o","l","d">>

\* '12:00:00 12:30:00'
RecTimes ==
    <<"1","2",":","0","0",":","0","0"," ","1","2",":","3","0",":","0","0">>

\* ' 5  Dry 12:00:00 12:30:00\t'
RecDry ==
    <<" ","5"," "," ","D","r","y"," ","1","2",":","0","0",":","0","0"," ","1",
      "2",":","3","0",":","0","0","\t">>

\* '6 Mix12:00:00-12:30:00end'
RecMix ==
    <<"6"," ","M","i","x","1","2",":","0","0",":","0","0","-","1","2",":","3",
      "0",":","0","0","e","n","d">>

\* '  4 Recipe\t'
PaddedRecipe ==
    <<" "," ","4"," ","R","e","c","i","p","e","\t">>

\* '4 Recipe notes'
RecipeNotes ==
    <<"4"," ","R","e","c","i","p","e"," ","n","o","t","e","s">>

\* ''
Blank == << >>

\* Bounds: the number of free lines of a document of each family
MaxLoc == 3
MaxChem == 2
MaxSetup == 2
MaxRec == 2

\* The sequences over S of length at most n
Seqs(S, n) == UNION {[1..k -> S] : k \in 0..n}

LocLines ==
    {MarkerChemistry, MarkerSetup, MarkerRecipe, MarkerTrend, PaddedRecipe,
     RecipeNotes}

ChemLines ==
    {ChemEuCl3, ChemUnused, ChemNoMoles, ChemShort, ChemEight, Blank}

SetupLines ==
    {SetupReactor, SetupBaffle, SetupHeader, SetupStirrer, SetupLid,
     SetupProbe, Blank}

RecLines ==
    {RecHeat, RecAdd, RecStir, RecCool, RecWait, RecHold, RecTimes, RecDry,
     RecMix, Blank}

\* Markers in any order, repeated, padded, or only contained in a line
LocStreams == Seqs(LocLines, MaxLoc)

\* A chemistry section, with or without its bounding markers
ChemStreams ==
    {head \o << ChemHeader1, ChemHeader2 >> \o d \o tail :
        head \in {<< MarkerChemistry >>, << >>},
        d \in Seqs(ChemLines, MaxChem),
        tail \in {<< MarkerSetup >>, << >>}}

\* A setup section
SetupStreams ==
    {<< MarkerSetup >> \o d \o << MarkerRecipe >> :
        d \in Seqs(SetupLines, MaxSetup)}

\* A recipe section: with or without a column-header row, with a step line
\* before it, and with or without the closing marker
RecipeStreams ==
    {<< MarkerRecipe >> \o pre \o d \o tail :
        pre \in {<< RecipeHeader >>, << RecHeat, RecipeHeader >>, << >>},
        d \in Seqs(RecLines, MaxRec),
        tail \in {<< MarkerTrend >>, << >>}}

\* The four markers once each and in order, each section empty or not
FullStreams ==
    {<< MarkerChemistry >> \o a \o << MarkerSetup >> \o b
         \o << MarkerRecipe >> \o c \o << MarkerTrend >> :
        a \in {<< >>, << ChemHeader1, ChemHeader2, ChemEuCl3 >>},
        b \in {<< >>, << SetupReactor, Blank, SetupBaffle >>},
        c \in {<< >>, << RecipeHeader, RecAdd >>,
                << RecipeHeader, RecHeat, Blank, RecHold, RecAdd >>,
                << RecipeHeader, RecAdd, RecipeHeader, RecStir >>}}

\* A complete report on two pages
ReportPage1 ==
    << MarkerChemistry, ChemHeader1, ChemHeader2, ChemEuCl3, ChemUnused,
       MarkerSetup, SetupReactor >>
ReportPage2 ==
    << SetupBaffle, MarkerRecipe, RecipeHeader, RecAdd, RecStir, RecHold,
       MarkerTrend >>

\* page.extract_text() of a page showing the given lines
PageText(ls) == Join(ls, <<"\n">>)

Pdfs ==
    {<< PageText(st) >> :
        st \in LocStreams \cup ChemStreams \cup SetupStreams
                   \cup RecipeStreams \cup FullStreams}
    \cup {<< PageText(ReportPage1), PageText(ReportPage2) >>, << >>}


(***************************************************************************)
(* State                                                                   *)
(*                                                                         *)
(* pdf is the document: the text of each page, as page.extract_text()      *)
(* returns it.  fn is the function being executed and pc its position.     *)
(* The two functions have the same local variables and never run at the    *)
(* same time, so the locals are shared.  returned holds the functions that *)
(* have returned; recipe_df is the DataFrame returned by                   *)
(* extract_recipe_from_pdf and df_chemistry, df_setup, df_recipe the three *)
(* returned by extract_tables_from_report (rows as sequences of records).  *)
(***************************************************************************)
VARIABLES pdf, fn, pc, returned,
          page, raw_text, lines, i,
          chemistry_start, setup_start, recipe_start, trend_start,
          chemistry_lines, setup_lines, recipe_lines,
          chemistry_data, setup_data, current_component, current_description,
          header_found, data_start, full_entries, current_entry, recipe_data,
          recipe_df, df_chemistry, df_setup, df_recipe

input == << pdf >>
control == << fn, pc, returned >>
text == << page, raw_text, lines >>
markers == << chemistry_start, setup_start, recipe_start, trend_start >>
sections == << chemistry_lines, setup_lines, recipe_lines >>
chemistry == << chemistry_data >>
setup == << setup_data, current_component, current_description >>
recipe == << header_found, data_start, full_entries, current_entry,
             recipe_data >>
results == << recipe_df, df_chemistry, df_setup, df_recipe >>

\* The variables of the two parser functions
parser == << input, control, text, i, markers, sections, chemistry, setup,
             recipe, results >>

(***************************************************************************)
(* The callers of the parser.  raised holds the functions that have ended  *)
(* with an exception of the PDF library.  archive_file is the kind of raw  *)
(* file the archive holds, op the normalizer operation being executed and  *)
(* step its position.  tmp_files are the temporary files that exist,       *)
(* tmp_count the number created so far and tmp_file_path the local of that *)
(* name (None while unbound); pending is the exception that is             *)
(* propagating or the value being returned; log is the logger's output and *)
(* outcome what the operation gave its caller.  columns is df.columns of   *)
(* the table file, encodings the encodings the reads have used, file_pos   *)
(* the position of the stream and df the columns of the DataFrame read.    *)
(***************************************************************************)
VARIABLES raised, archive_file, op, step, tmp_files, tmp_count,
          tmp_file_path, pending, log, outcome, columns, encodings,
          file_pos, df

tempfiles == << tmp_files, tmp_count, tmp_file_path >>
tabular == << columns, encodings, file_pos, df >>
normalizer == << archive_file, op, step, tempfiles, pending, log, outcome,
                 tabular >>
caller == << raised, normalizer >>

vars == << parser, caller >>

FnRecipe == "extract_recipe_from_pdf"
FnTables == "extract_tables_from_report"

\* The values of the locals before a function has assigned them
LocalsInit ==
    /\ page = 0 /\ raw_text = << >> /\ lines = << >> /\ i = 0
    /\ chemistry_start = None /\ setup_start = None
    /\ recipe_start = None /\ trend_start = None
    /\ chemistry_lines = << >> /\ setup_lines = << >> /\ recipe_lines = << >>
    /\ chemistry_data = << >> /\ setup_data = << >>
    /\ current_component = << >> /\ current_description = << >>
    /\ header_found = FALSE /\ data_start = 0
    /\ full_entries = << >> /\ current_entry = << >> /\ recipe_data = << >>

LocalsReset ==
    /\ page' = 0 /\ raw_text' = << >> /\ lines' = << >> /\ i' = 0
    /\ chemistry_start' = None /\ setup_start' = None
    /\ recipe_start' = None /\ trend_start' = None
    /\ chemistry_lines' = << >> /\ setup_lines' = << >>
    /\ recipe_lines' = << >>
    /\ chemistry_data' = << >> /\ setup_data' = << >>
    /\ current_component' = << >> /\ current_description' = << >>
    /\ header_found' = FALSE /\ data_start' = 0
    /\ full_entries' = << >> /\ current_entry' = << >> /\ recipe_data' = << >>

(***************************************************************************)
(* Text Extractor (both functions)                                         *)
(***************************************************************************)

\* A caller calls one of the two functions on the document
Enter(f) ==
    /\ pc = "idle" /\ f \notin returned /\ raised = {}
    /\ fn' = f /\ pc' = "extract"
    /\ UNCHANGED << input, returned, text, i, markers, sections, chemistry,
                    setup, recipe, results >>

\* A direct caller calls the function; an exception ends its run
Call(f) ==
    /\ op = ""
    /\ Enter(f)
    /\ UNCHANGED caller

CallRecipe == Call(FnRecipe)
CallTables == Call(FnTables)

\* for page in pdf.pages: raw_text += page.extract_text() + "\n"
ExtractPage ==
    /\ pc = "extract" /\ page < Len(pdf)
    /\ raw_text' = raw_text \o At(pdf, page) \o <<"\n">>
    /\ page' = page + 1
    /\ UNCHANGED << input, control, lines, i, markers, sections, chemistry,
                    setup, recipe, results >>
    /\ UNCHANGED caller

\* lines = raw_text.split('\n')
SplitLines ==
    /\ pc = "extract" /\ page = Len(pdf)
    /\ lines' = SplitOn(raw_text, "\n")
    /\ i' = 0
    /\ pc' = "locate"
    /\ UNCHANGED << input, fn, returned, page, raw_text, markers, sections,
                    chemistry, setup, recipe, results >>
    /\ UNCHANGED caller

\* pdfplumber.open raises, or page.extract_text() raises or returns None
\* (raw_text += None + "\n" is a TypeError): neither function catches it,
\* the exception leaves the function
ExtractRaise ==
    /\ pc = "extract"
    /\ page = 0 \/ page < Len(pdf)
    /\ raised' = raised \cup {fn}
    /\ fn' = "" /\ pc' = "idle"
    /\ LocalsReset
    /\ UNCHANGED << input, returned, results, normalizer >>

(***************************************************************************)
(* extract_recipe_from_pdf                                                 *)
(***************************************************************************)

\* for i, line in enumerate(lines): one iteration
RecipeLocate ==
    /\ fn = FnRecipe /\ pc = "locate" /\ i < Len(lines)
    /\ LET line == At(lines, i)
       IN  /\ recipe_start' =
                  IF IsMarker(line, MarkerRecipe) THEN i ELSE recipe_start
           /\ trend_start' =
                  IF ~IsMarker(line, MarkerRecipe)
                         /\ IsMarker(line, MarkerTrend)
                  THEN i ELSE trend_start
    /\ i' = i + 1
    /\ UNCHANGED << input, control, text, chemistry_start, setup_start,
                    sections, chemistry, setup, recipe, results >>
    /\ UNCHANGED caller

\* The recipe section of extract_recipe_from_pdf, "4 Recipe" line included
RecipeSection(ls, start, end) == Section(ls, start, end)

\* recipe_lines = lines[recipe_start:trend_start] ...; if recipe_lines:
\* recipe_lines = recipe_lines[1:]
RecipeSlice ==
    /\ fn = FnRecipe /\ pc = "locate" /\ i = Len(lines)
    /\ LET sec == RecipeSection(lines, recipe_start, trend_start)
       IN  recipe_lines' = IF sec # << >> THEN SliceFrom(sec, 1) ELSE sec
    /\ header_found' = FALSE /\ data_start' = 0
    /\ recipe_data' = << >>
    /\ i' = 0
    /\ pc' = "header"
    /\ UNCHANGED << input, fn, returned, text, markers, chemistry_lines,
                    setup_lines, chemistry, setup, full_entries,
                    current_entry, results >>
    /\ UNCHANGED caller

\* for i, line in enumerate(recipe_lines): one iteration of the header search
RecipeFindHeader ==
    /\ fn = FnRecipe /\ pc = "header"
    /\ ~header_found /\ i < Len(recipe_lines)
    /\ IF IsHeaderRow(At(recipe_lines, i))
       THEN header_found' = TRUE /\ data_start' = i + 1 /\ i' = i
       ELSE i' = i + 1 /\ UNCHANGED << header_found, data_start >>
    /\ UNCHANGED << input, control, text, markers, sections, chemistry,
                    setup, full_entries, current_entry, recipe_data,
                    results >>
    /\ UNCHANGED caller

\* The end of the header search: if header_found, the reconstruction starts
RecipeHeaderDone ==
    /\ fn = FnRecipe /\ pc = "header"
    /\ header_found \/ i = Len(recipe_lines)
    /\ full_entries' = << >> /\ current_entry' = << >>
    /\ i' = 0
    /\ pc' = IF header_found THEN "reconstruct" ELSE "return"
    /\ UNCHANGED << input, fn, returned, text, markers, sections, chemistry,
                    setup, header_found, data_start, recipe_data, results >>
    /\ UNCHANGED caller

\* for line in recipe_lines[data_start:]: one iteration
RecipeReconstruct ==
    /\ fn = FnRecipe /\ pc = "reconstruct"
    /\ i < Len(SliceFrom(recipe_lines, data_start))
    /\ LET r == ReconstructStep(full_entries, current_entry,
                                At(SliceFrom(recipe_lines, data_start), i))
       IN  /\ full_entries' = r.full_entries
           /\ current_entry' = r.current_entry
    /\ i' = i + 1
    /\ UNCHANGED << input, control, text, markers, sections, chemistry,
                    setup, header_found, data_start, recipe_data, results >>
    /\ UNCHANGED caller

\* if current_entry: full_entries.append(current_entry.strip())
RecipeReconstructEnd ==
    /\ fn = FnRecipe /\ pc = "reconstruct"
    /\ i = Len(SliceFrom(recipe_lines, data_start))
    /\ full_entries' = ReconstructEnd(full_entries, current_entry)
    /\ i' = 0
    /\ pc' = "parse"
    /\ UNCHANGED << input, fn, returned, text, markers, sections, chemistry,
                    setup, header_found, data_start, current_entry,
                    recipe_data, results >>
    /\ UNCHANGED caller

\* for entry in full_entries: one iteration
RecipeParse ==
    /\ fn = FnRecipe /\ pc = "parse" /\ i < Len(full_entries)
    /\ recipe_data' = recipe_data \o RecipeParseEntry(At(full_entries, i))
    /\ i' = i + 1
    /\ UNCHANGED << input, control, text, markers, sections, chemistry,
                    setup, header_found, data_start, full_entries,
                    current_entry, results >>
    /\ UNCHANGED caller

\* return pd.DataFrame(recipe_data)
RecipeReturn ==
    /\ fn = FnRecipe
    /\ pc = "return" \/ (pc = "parse" /\ i = Len(full_entries))
    /\ recipe_df' = recipe_data
    /\ returned' = returned \cup {FnRecipe}
    /\ fn' = "" /\ pc' = "idle"
    /\ LocalsReset
    /\ UNCHANGED << input, df_chemistry, df_setup, df_recipe >>
    /\ UNCHANGED caller

(***************************************************************************)
(* extract_tables_from_report                                              *)
(***************************************************************************)

\* for i, line in enumerate(lines): one iteration
TablesLocate ==
    /\ fn = FnTables /\ pc = "locate" /\ i < Len(lines)
    /\ LET line == At(lines, i)
           isChemistry == IsMarker(line, MarkerChemistry)
           isSetup == ~isChemistry /\ IsMarker(line, MarkerSetup)
           isRecipe == ~isChemistry /\ ~isSetup /\ IsMarker(line, MarkerRecipe)
           isTrend == ~isChemistry /\ ~isSetup /\ ~isRecipe
                          /\ IsMarker(line, MarkerTrend)
       IN  /\ chemistry_start' = IF isChemistry THEN i ELSE chemistry_start
           /\ setup_start' = IF isSetup THEN i ELSE setup_start
           /\ recipe_start' = IF isRecipe THEN i ELSE recipe_start
           /\ trend_start' = IF isTrend THEN i ELSE trend_start
    /\ i' = i + 1
    /\ UNCHANGED << input, control, text, sections, chemistry, setup,
                    recipe, results >>
    /\ UNCHANGED caller

\* The three sections are cut; the chemistry loop starts:
\* if chemistry_lines: chemistry_lines = chemistry_lines[1:]
TablesSlice ==
    /\ fn = FnTables /\ pc = "locate" /\ i = Len(lines)
    /\ LET sec == Section(lines, chemistry_start, setup_start)
       IN  chemistry_lines' = IF sec # << >> THEN SliceFrom(sec, 1) ELSE sec
    /\ setup_lines' = Section(lines, setup_start, recipe_start)
    /\ recipe_lines' = Section(lines, recipe_start, trend_start)
    /\ chemistry_data' = << >>
    /\ i' = 0
    /\ pc' = "chemistry"
    /\ UNCHANGED << input, fn, returned, text, markers, setup, recipe,
                    results >>
    /\ UNCHANGED caller

\* for line in chemistry_lines[2:]: one iteration
TablesChemistry ==
    /\ fn = FnTables /\ pc = "chemistry"
    /\ i < Len(SliceFrom(chemistry_lines, 2))
    /\ chemistry_data' =
           chemistry_data \o ChemistryRows(At(SliceFrom(chemistry_lines, 2), i))
    /\ i' = i + 1
    /\ UNCHANGED << input, control, text, markers, sections, setup, recipe,
                    results >>
    /\ UNCHANGED caller

\* df_chemistry = pd.DataFrame(chemistry_data); the setup loop starts:
\* if setup_lines: setup_lines = setup_lines[1:]
TablesChemistryDone ==
    /\ fn = FnTables /\ pc = "chemistry"
    /\ i = Len(SliceFrom(chemistry_lines, 2))
    /\ df_chemistry' = chemistry_data
    /\ setup_data' = << >>
    /\ setup_lines' = IF setup_lines # << >>
                      THEN SliceFrom(setup_lines, 1) ELSE setup_lines
    /\ current_component' = << >> /\ current_description' = << >>
    /\ i' = 0
    /\ pc' = "setup"
    /\ UNCHANGED << input, fn, returned, text, markers, chemistry_lines,
                    recipe_lines, chemistry, recipe, recipe_df, df_setup,
                    df_recipe >>
    /\ UNCHANGED caller

\* for line in setup_lines: one iteration
TablesSetup ==
    /\ fn = FnTables /\ pc = "setup" /\ i < Len(setup_lines)
    /\ LET r == SetupStep(setup_data, current_component, current_description,
                          At(setup_lines, i))
       IN  /\ setup_data' = r.data
           /\ current_component' = r.component
           /\ current_description' = r.description
    /\ i' = i + 1
    /\ UNCHANGED << input, control, text, markers, sections, chemistry,
                    recipe, results >>
    /\ UNCHANGED caller

\* Fault: the component still open after the loop is not added
SetupEndNoFlush(data, component, description) == data

\* After the loop: the last component is added
SetupEnd(data, component, description) ==
    IF component # << >>
    THEN Append(data, SetupRow(component, Strip(description)))
    ELSE data

\* df_setup = pd.DataFrame(setup_data); the header search starts:
\* if recipe_lines: recipe_lines = recipe_lines[1:]
TablesSetupDone ==
    /\ fn = FnTables /\ pc = "setup" /\ i = Len(setup_lines)
    /\ setup_data' =
           SetupEnd(setup_data, current_component, current_description)
    /\ df_setup' = setup_data'
    /\ recipe_data' = << >>
    /\ recipe_lines' = IF recipe_lines # << >>
                       THEN SliceFrom(recipe_lines, 1) ELSE recipe_lines
    /\ header_found' = FALSE /\ data_start' = 0
    /\ i' = 0
    /\ pc' = "header"
    /\ UNCHANGED << input, fn, returned, text, markers, chemistry_lines,
                    setup_lines, chemistry, current_component,
                    current_description, full_entries, current_entry,
                    recipe_df, df_chemistry, df_recipe >>
    /\ UNCHANGED caller

\* for i, line in enumerate(recipe_lines): one iteration of the header search
TablesFindHeader ==
    /\ fn = FnTables /\ pc = "header"
    /\ ~header_found /\ i < Len(recipe_lines)
    /\ IF IsHeaderRow(At(recipe_lines, i))
       THEN header_found' = TRUE /\ data_start' = i + 1 /\ i' = i
       ELSE i' = i + 1 /\ UNCHANGED << header_found, data_start >>
    /\ UNCHANGED << input, control, text, markers, sections, chemistry,
                    setup, full_entries, current_entry, recipe_data,
                    results >>
    /\ UNCHANGED caller

\* Fault: the lines are read as data even when no header row was found
TablesHeaderDoneWithoutHeader ==
    /\ fn = FnTables /\ pc = "header"
    /\ header_found \/ i = Len(recipe_lines)
    /\ full_entries' = << >> /\ current_entry' = << >>
    /\ i' = 0
    /\ pc' = "reconstruct"
    /\ UNCHANGED << input, fn, returned, text, markers, sections, chemistry,
                    setup, header_found, data_start, recipe_data, results >>
    /\ UNCHANGED caller

\* The end of the header search: if header_found, the reconstruction starts
TablesHeaderDone ==
    /\ fn = FnTables /\ pc = "header"
    /\ header_found \/ i = Len(recipe_lines)
    /\ full_entries' = << >> /\ current_entry' = << >>
    /\ i' = 0
    /\ pc' = IF header_found THEN "reconstruct" ELSE "return"
    /\ UNCHANGED << input, fn, returned, text, markers, sections, chemistry,
                    setup, header_found, data_start, recipe_data, results >>
    /\ UNCHANGED caller

\* for line in recipe_lines[data_start:]: one iteration
TablesReconstruct ==
    /\ fn = FnTables /\ pc = "reconstruct"
    /\ i < Len(SliceFrom(recipe_lines, data_start))
    /\ LET r == ReconstructStep(full_entries, current_entry,
                                At(SliceFrom(recipe_lines, data_start), i))
       IN  /\ full_entries' = r.full_entries
           /\ current_entry' = r.current_entry
    /\ i' = i + 1
    /\ UNCHANGED << input, control, text, markers, sections, chemistry,
                    setup, header_found, data_start, recipe_data, results >>
    /\ UNCHANGED caller

\* if current_entry: full_entries.append(current_entry.strip())
TablesReconstructEnd ==
    /\ fn = FnTables /\ pc = "reconstruct"
    /\ i = Len(SliceFrom(recipe_lines, data_start))
    /\ full_entries' = ReconstructEnd(full_entries, current_entry)
    /\ i' = 0
    /\ pc' = "parse"
    /\ UNCHANGED << input, fn, returned, text, markers, sections, chemistry,
                    setup, header_found, data_start, current_entry,
                    recipe_data, results >>
    /\ UNCHANGED caller

\* for entry in full_entries: one iteration
TablesParse ==
    /\ fn = FnTables /\ pc = "parse" /\ i < Len(full_entries)
    /\ recipe_data' = recipe_data \o TablesParseEntry(At(full_entries, i))
    /\ i' = i + 1
    /\ UNCHANGED << input, control, text, markers, sections, chemistry,
                    setup, header_found, data_start, full_entries,
                    current_entry, results >>
    /\ UNCHANGED caller

\* df_recipe = pd.DataFrame(recipe_data);
\* return df_chemistry, df_setup, df_recipe
TablesReturn ==
    /\ fn = FnTables
    /\ pc = "return" \/ (pc = "parse" /\ i = Len(full_entries))
    /\ df_recipe' = recipe_data
    /\ returned' = returned \cup {FnTables}
    /\ fn' = "" /\ pc' = "idle"
    /\ LocalsReset
    /\ UNCHANGED << input, recipe_df, df_chemistry, df_setup >>
    /\ UNCHANGED caller

(***************************************************************************)
(* MRO004Normalizer: the typed objects built from the parser's tables      *)
(***************************************************************************)
\* float(row[column].split()[0]) inside try/except: the number as
\* num / 10^frac, and 0 when the column is missing, empty or not a number
QuantityOf(row, column) ==
    IF column \in DOMAIN row /\ Split(row[column]) # << >>
          /\ Float(Split(row[column])[1]).ok
    THEN LET f == Float(Split(row[column])[1])
         IN  [num |-> f.num, frac |-> f.frac]
    ELSE [num |-> 0, frac |-> 0]

\* _process_chemistry_data: one Chemical per row
ProcessChemistryData(chemistry_df) ==
    [r \in 1..Len(chemistry_df) |->
        LET row == chemistry_df[r]
        IN  [name |-> row["Chemical"],
             chemical_name |-> row["Chemical"],
             mol_weight |-> QuantityOf(row, "Mol Weight"),
             actual_moles |-> QuantityOf(row, "Actual Moles"),
             actual_amount |-> QuantityOf(row, "Actual Amount"),
             concentration |->
                 IF "Concentration" \in DOMAIN row
                       /\ Split(row["Concentration"]) # << >>
                 THEN Split(row["Concentration"])[1]
                 ELSE << >>]]

\* The duration of a step in seconds: 0 unless both times are given, have
\* three parts each and int() accepts every part (digits)
DurationSeconds(start, end) ==
    LET start_parts == SplitOn(start, ":")
        end_parts == SplitOn(end, ":")
        IsInt(part) ==
            part # << >> /\ \A k \in 1..Len(part) : IsDigit(part[k])
        Seconds(parts) == DigitsValue(parts[1]) * 3600
                              + DigitsValue(parts[2]) * 60
                              + DigitsValue(parts[3])
    IN  IF start # << >> /\ end # << >>
              /\ Len(start_parts) = 3 /\ Len(end_parts) = 3
              /\ \A k \in 1..3 : IsInt(start_parts[k]) /\ IsInt(end_parts[k])
        THEN Seconds(end_parts) - Seconds(start_parts)
        ELSE 0

\* _process_recipe_data, and the loop of MRO004.normalize: one Recipe step
\* per row (start_time and end_time None when the row's time is empty)
ProcessRecipeData(rows) ==
    [r \in 1..Len(rows) |->
        LET row == rows[r]
        IN  [name |-> <<"s","t","e","p"," ">> \o row["#"],
             action |-> row["Action/Annotation"],
             duration |-> DurationSeconds(row["Start Time"], row["End Time"]),
             start_time |-> IF row["Start Time"] # << >>
                            THEN row["Start Time"] ELSE None,
             end_time |-> IF row["End Time"] # << >>
                          THEN row["End Time"] ELSE None]]

\* An exception on its way to the caller
Raise(type, msg) == [kind |-> "raise", exc |-> [type |-> type, msg |-> msg]]

\* A value on its way to the caller
Return(value) == [kind |-> "return", value |-> value]

(***************************************************************************)
(* MRO004Normalizer.process_pdf_report and the recipe branch of            *)
(* MRO004.normalize: the same steps around the two parser functions        *)
(***************************************************************************)

\* One of the two operations on a PDF file is being executed
IsPdfOp == op \in {"process_pdf_report", "normalize"}

\* The parser function the operation calls
PdfFunction == IF op = "process_pdf_report" THEN FnTables ELSE FnRecipe

\* process_pdf_report(archive, report_file, logger) is called
ReportStart ==
    /\ op = "" /\ step = "idle" /\ archive_file = "report"
    /\ pc = "idle" /\ returned = {} /\ raised = {}
    /\ op' = "process_pdf_report" /\ step' = "open"
    /\ UNCHANGED << parser, raised, archive_file, tempfiles, pending, log,
                    outcome, tabular >>

\* MRO004.normalize reaches: if self.recipe_file:
NormalizeStart ==
    /\ op = "" /\ step = "idle" /\ archive_file = "report"
    /\ pc = "idle" /\ returned = {} /\ raised = {}
    /\ op' = "normalize" /\ step' = "open"
    /\ UNCHANGED << parser, raised, archive_file, tempfiles, pending, log,
                    outcome, tabular >>

\* with archive.m_context.raw_file(..., 'rb') as file: the file opens or
\* the call raises
PdfOpen ==
    /\ IsPdfOp /\ step = "open"
    /\ \E ok \in BOOLEAN :
           IF ok THEN step' = "create" /\ UNCHANGED pending
           ELSE step' = "except" /\ pending' = Raise("OSError", "")
    /\ UNCHANGED << parser, raised, archive_file, op, tempfiles, log, outcome,
                    tabular >>

\* with tempfile.NamedTemporaryFile(delete=False, suffix='.pdf') as
\* tmp_file: a new file exists, or the call raises
PdfCreateTemp ==
    /\ IsPdfOp /\ step = "create"
    /\ \E ok \in BOOLEAN :
           IF ok
           THEN /\ tmp_count' = tmp_count + 1
                /\ tmp_files' = tmp_files \cup {tmp_count + 1}
                /\ step' = "write"
                /\ UNCHANGED pending
           ELSE /\ step' = "except" /\ pending' = Raise("OSError", "")
                /\ UNCHANGED << tmp_files, tmp_count >>
    /\ UNCHANGED << parser, raised, archive_file, op, tmp_file_path, log,
                    outcome, tabular >>

\* tmp_file.write(file.read()); tmp_file_path = tmp_file.name.  When the
\* read or the write raises, the with block closes the temporary file
\* (delete=False: the file stays) and the name is never bound.
PdfWriteTemp ==
    /\ IsPdfOp /\ step = "write"
    /\ \E ok \in BOOLEAN :
           IF ok
           THEN /\ tmp_file_path' = tmp_count
                /\ step' = "extract"
                /\ UNCHANGED pending
           ELSE /\ step' = "except" /\ pending' = Raise("OSError", "")
                /\ UNCHANGED tmp_file_path
    /\ UNCHANGED << parser, raised, archive_file, op, tmp_files, tmp_count,
                    log, outcome, tabular >>

\* try: ... = extract_tables_from_report(tmp_file_path), or
\* recipe_df = extract_recipe_from_pdf(tmp_file_path)
PdfCallExtract ==
    /\ IsPdfOp /\ step = "extract"
    /\ Enter(PdfFunction)
    /\ step' = "extracting"
    /\ UNCHANGED << raised, archive_file, op, tempfiles, pending, log,
                    outcome, tabular >>

\* The function has returned: the rows are turned into chemicals and steps
\* (return chemicals, steps; self.steps = steps).  Or it has raised.
PdfExtracted ==
    /\ IsPdfOp /\ step = "extracting" /\ pc = "idle"
    /\ pending' =
           IF PdfFunction \in raised THEN Raise("PDFSyntaxError", "")
           ELSE IF op = "process_pdf_report"
           THEN Return([chemicals |-> ProcessChemistryData(df_chemistry),
                        steps |-> ProcessRecipeData(df_recipe)])
           ELSE Return([steps |-> ProcessRecipeData(recipe_df)])
    /\ step' = "finally"
    /\ UNCHANGED << parser, raised, archive_file, op, tempfiles, log, outcome,
                    tabular >>

\* finally: os.unlink(tmp_file_path)
PdfFinally ==
    /\ IsPdfOp /\ step = "finally"
    /\ tmp_files' = tmp_files \ {tmp_file_path}
    /\ IF pending.kind = "raise"
       THEN step' = "except" /\ UNCHANGED << pending, outcome >>
       ELSE /\ step' = "done" /\ outcome' = pending
            /\ pending' = [kind |-> "none"]
    /\ UNCHANGED << parser, raised, archive_file, op, tmp_count,
                    tmp_file_path, log, tabular >>

\* An operation without the handler: the exception goes on to the caller
PdfExceptReraise ==
    /\ IsPdfOp /\ step = "except"
    /\ outcome' = pending
    /\ pending' = [kind |-> "none"]
    /\ step' = "done"
    /\ UNCHANGED << parser, raised, archive_file, op, tempfiles, log, tabular >>

\* except Exception as e: logger.warning(...); process_pdf_report returns
\* [], [] and normalize goes on without steps
PdfExcept ==
    /\ IsPdfOp /\ step = "except"
    /\ log' = Append(log, [level |-> "warning",
                           msg |-> IF op = "process_pdf_report"
                                   THEN "Failed to extract data from PDF report"
                                   ELSE "Failed to extract recipe from PDF",
                           arg |-> pending.exc])
    /\ outcome' = IF op = "process_pdf_report"
                  THEN Return([chemicals |-> << >>, steps |-> << >>])
                  ELSE Return(None)
    /\ pending' = [kind |-> "none"]
    /\ step' = "done"
    /\ UNCHANGED << parser, raised, archive_file, op, tempfiles, tabular >>

(***************************************************************************)
(* column_utils: the columns of a table found by their names               *)
(***************************************************************************)

\* The column names a table file is made of, in the order of the file
BaseColumns ==
    <<
        \* 'Index'
        <<"I","n","d","e","x">>,
        \* 'Experiment Time'
        <<"E","x","p","e","r","i","m","e","n","t"," ","T","i","m","e">>,
        \* 'process_time'
        <<"p","r","o","c","e","s","s","_","t","i","m","e">>,
        \* 'R'
        <<"R">>,
        \* 'Ca(NO3)2 [mL]'
        <<"C","a","(","N","O","3",")","2"," ","[","m","L","]">>,
        \* 'Conductivity [mS/cm]'
        <<"C","o","n","d","u","c","t","i","v","i",
          "t","y"," ","[","m","S","/","c","m","]">>,
        \* 'Leitfähigkeit'
        <<"L","e","i","t","f","ä","h","i","g","k","e","i","t">>,
        \* 'pH'
        <<"p","H">>,
        \* 'pH-Druck'
        <<"p","H","-","D","r","u","c","k">>,
        \* 'Temp [C]'
        <<"T","e","m","p"," ","[","C","]">>,
        \* 'Tr'
        <<"T","r">>
    >>

\* The tables: every selection of the columns, in the order of the file
Tables ==
    {SelectSeq([k \in 1..Len(BaseColumns) |-> IF k \in S THEN BaseColumns[k]
                                              ELSE << "-" >>],
               LAMBDA c : c # << "-" >>) :
        S \in SUBSET (1..Len(BaseColumns))}

\* col.startswith(prefix)
StartsWith(col, prefix) ==
    Len(col) >= Len(prefix) /\ SubSeq(col, 1, Len(prefix)) = prefix

\* None where a column name is expected: no text is equal to it
NoColumn == << "None" >>

\* for col in df.columns: if col.startswith('Ca(NO3)2'): return col;
\* return None
find_calcium_nitrate_column(cols) ==
    LET Test(col) == StartsWith(col, <<"C","a","(","N","O","3",")","2">>)
    IN  IF \E k \in 1..Len(cols) : Test(cols[k])
        THEN cols[CHOOSE k \in 1..Len(cols) :
                      Test(cols[k]) /\ \A j \in 1..(k - 1) : ~Test(cols[j])]
        ELSE NoColumn

\* for col in df.columns: if pattern in col: return col; return None
find_column_by_pattern(cols, pattern) ==
    IF \E k \in 1..Len(cols) : Contains(cols[k], pattern)
    THEN cols[CHOOSE k \in 1..Len(cols) :
                  /\ Contains(cols[k], pattern)
                  /\ \A j \in 1..(k - 1) : ~Contains(cols[j], pattern)]
    ELSE NoColumn

\* Fault: the first column, in column order, that contains any of the
\* patterns, whatever the priority of the pattern
FirstPatternColumnOrder(cols, patterns) ==
    LET Hit(col) == \E p \in 1..Len(patterns) : Contains(col, patterns[p])
    IN  IF \E k \in 1..Len(cols) : Hit(cols[k])
        THEN cols[CHOOSE k \in 1..Len(cols) :
                      Hit(cols[k]) /\ \A j \in 1..(k - 1) : ~Hit(cols[j])]
        ELSE NoColumn

\* for pattern in patterns: col = find_column_by_pattern(df, pattern);
\* if col: return col; return None.  A column named '' is not taken.
RECURSIVE FirstPattern(_, _)
FirstPattern(cols, patterns) ==
    IF patterns = << >> THEN NoColumn
    ELSE LET col == find_column_by_pattern(cols, Head(patterns))
         IN  IF col # NoColumn /\ col # << >> THEN col
             ELSE FirstPattern(cols, Tail(patterns))

conductivity_patterns ==
    <<
        \* 'Leitfähigkeit'
        <<"L","e","i","t","f","ä","h","i","g","k","e","i","t">>,
        \* 'Conductivity'
        <<"C","o","n","d","u","c","t","i","v","i","t","y">>,
        \* 'conductivity'
        <<"c","o","n","d","u","c","t","i","v","i","t","y">>
    >>

find_conductivity_column(cols) == FirstPattern(cols, conductivity_patterns)

ph_patterns ==
    <<
        \* 'pH-Druck'
        <<"p","H","-","D","r","u","c","k">>,
        \* 'pH'
        <<"p","H">>,
        \* 'ph'
        <<"p","h">>
    >>

find_ph_column(cols) == FirstPattern(cols, ph_patterns)

temp_patterns ==
    <<
        \* 'Tr'
        <<"T","r">>,
        \* 'Temperature'
        <<"T","e","m","p","e","r","a","t","u","r","e">>,
        \* 'temperature'
        <<"t","e","m","p","e","r","a","t","u","r","e">>,
        \* 'Temp'
        <<"T","e","m","p">>
    >>

find_temperature_column(cols) == FirstPattern(cols, temp_patterns)


(***************************************************************************)
(* MRO004Normalizer.process_csv_data and                                   *)
(* MRO005Normalizer.process_excel_data, up to the columns they plot        *)
(***************************************************************************)
IsTableOp == op \in {"process_csv_data", "process_excel_data"}

\* A line of the logger
Logged(level, msg, arg) == [level |-> level, msg |-> msg, arg |-> arg]

\* The operation ends with an exception that nothing catches
Propagate(type, msg) ==
    /\ outcome' = Raise(type, msg)
    /\ pending' = [kind |-> "none"]
    /\ step' = "done"

\* process_csv_data(archive, data_file, logger) is called
CsvStart ==
    /\ op = "" /\ step = "idle" /\ archive_file = "data"
    /\ op' = "process_csv_data" /\ step' = "open"
    /\ UNCHANGED << parser, raised, archive_file, tempfiles, pending, log,
                    outcome, tabular >>

\* process_excel_data(archive, data_file, logger) is called
ExcelStart ==
    /\ op = "" /\ step = "idle" /\ archive_file = "data"
    /\ op' = "process_excel_data" /\ step' = "open"
    /\ UNCHANGED << parser, raised, archive_file, tempfiles, pending, log,
                    outcome, tabular >>

\* with archive.m_context.raw_file(data_file, 'rb') as file: outside any
\* try, so a failure leaves the operation
TableOpen ==
    /\ IsTableOp /\ step = "open"
    /\ \E ok \in BOOLEAN :
           IF ok THEN step' = "read" /\ UNCHANGED << pending, outcome >>
           ELSE Propagate("OSError", "")
    /\ UNCHANGED << parser, raised, archive_file, op, tempfiles, log, tabular >>

\* The results of a read: a table (a file without columns gives none), a
\* decoding failure (not with latin-1, which decodes every byte), or
\* another failure of the reader
ReadResults(encoding) ==
    (IF columns # << >> THEN {"ok"} ELSE {})
        \cup (IF encoding = "utf-8" THEN {"UnicodeDecodeError"} ELSE {})
        \cup {"ParserError"}

\* try: df = pd.read_csv(file, ..., encoding='utf-8').  Only a
\* UnicodeDecodeError is caught.
CsvReadUtf8 ==
    /\ op = "process_csv_data" /\ step = "read"
    /\ encodings' = Append(encodings, "utf-8")
    /\ file_pos' = 1
    /\ \E result \in ReadResults("utf-8") :
           CASE result = "ok" ->
                    /\ df' = columns
                    /\ log' = Append(log, Logged("info",
                           "Successfully read CSV file with UTF-8 encoding",
                           << >>))
                    /\ step' = "prepare"
                    /\ UNCHANGED << pending, outcome >>
             [] result = "UnicodeDecodeError" ->
                    /\ pending' = Raise(result, "")
                    /\ step' = "seek"
                    /\ UNCHANGED << df, log, outcome >>
             [] OTHER ->
                    /\ Propagate(result, "")
                    /\ UNCHANGED << df, log >>
    /\ UNCHANGED << parser, raised, archive_file, op, tempfiles, columns >>

\* A handler that reads again from where the first read stopped
CsvSeekNoRewind ==
    /\ op = "process_csv_data" /\ step = "seek"
    /\ step' = "fallback"
    /\ UNCHANGED << parser, raised, archive_file, op, tempfiles, pending, log,
                    outcome, tabular >>

\* except UnicodeDecodeError: file.seek(0)
CsvSeek ==
    /\ op = "process_csv_data" /\ step = "seek"
    /\ file_pos' = 0
    /\ step' = "fallback"
    /\ UNCHANGED << parser, raised, archive_file, op, tempfiles, pending, log,
                    outcome, columns, encodings, df >>

\* try: df = pd.read_csv(file, ..., encoding='latin-1'); except Exception
\* as e: logger.error(...); raise
CsvReadLatin1 ==
    /\ op = "process_csv_data" /\ step = "fallback"
    /\ encodings' = Append(encodings, "latin-1")
    /\ file_pos' = 1
    /\ \E result \in ReadResults("latin-1") :
           IF result = "ok"
           THEN /\ df' = columns
                /\ log' = Append(log, Logged("info",
                       "Successfully read CSV file with latin-1 encoding",
                       << >>))
                /\ pending' = [kind |-> "none"]
                /\ step' = "prepare"
                /\ UNCHANGED outcome
           ELSE /\ log' = Append(log, Logged("error",
                       "Failed to read CSV file with both UTF-8 and latin-1 encodings",
                       result))
                /\ Propagate(result, "")
                /\ UNCHANGED df
    /\ UNCHANGED << parser, raised, archive_file, op, tempfiles, columns >>

\* df = df.drop(df.columns[0], axis=1); df['Experiment Time'] = ...
CsvPrepare ==
    /\ op = "process_csv_data" /\ step = "prepare"
    /\ df' = Tail(df)
    /\ IF \E k \in 1..Len(df') :
              df'[k] = <<"E","x","p","e","r","i","m","e","n","t"," ",
                         "T","i","m","e">>
       THEN step' = "calcium" /\ UNCHANGED << pending, outcome >>
       ELSE Propagate("KeyError", "Experiment Time")
    /\ UNCHANGED << parser, raised, archive_file, op, tempfiles, log, columns,
                    encodings, file_pos >>

\* try: df = pd.read_excel(file, sheet_name='Measured values'); except
\* Exception as e: logger.error(...); raise
ExcelRead ==
    /\ op = "process_excel_data" /\ step = "read"
    /\ \E result \in ReadResults("") :
           IF result = "ok"
           THEN /\ df' = columns
                /\ log' = Append(log, Logged("info",
                       "Successfully read Excel file", << >>))
                /\ step' = "prepare"
                /\ UNCHANGED << pending, outcome >>
           ELSE /\ log' = Append(log, Logged("error",
                       "Failed to read Excel file", result))
                /\ Propagate(result, "")
                /\ UNCHANGED df
    /\ UNCHANGED << parser, raised, archive_file, op, tempfiles, columns,
                    encodings, file_pos >>

\* process_time = df['process_time']
ExcelPrepare ==
    /\ op = "process_excel_data" /\ step = "prepare"
    /\ IF \E k \in 1..Len(df) :
              df[k] = <<"p","r","o","c","e","s","s","_","t","i","m","e">>
       THEN step' = "calcium" /\ UNCHANGED << pending, outcome >>
       ELSE Propagate("KeyError", "process_time")
    /\ UNCHANGED << parser, raised, archive_file, op, tempfiles, log,
                    tabular >>

\* calcium_nitrate_col = find_calcium_nitrate_column(df); if it is None:
\* logger.error(f'Available columns: {list(df.columns)}'); raise ValueError
TableCalcium ==
    /\ IsTableOp /\ step = "calcium"
    /\ LET col == find_calcium_nitrate_column(df)
       IN  IF col = NoColumn
           THEN /\ log' = Append(log, Logged("error", "Available columns", df))
                /\ Propagate("ValueError",
                       "No column starting with 'Ca(NO3)2' found in the data")
           ELSE /\ log' = Append(log, Logged("info",
                       "Found calcium nitrate column", col))
                /\ step' = "conductivity"
                /\ UNCHANGED << pending, outcome >>
    /\ UNCHANGED << parser, raised, archive_file, op, tempfiles, tabular >>

\* What the operation does with the column a finder gave: process_csv_data
\* logs the columns before it raises and logs the column found,
\* process_excel_data logs nothing
RequiredColumn(col, missing, found, next) ==
    IF col = NoColumn
    THEN /\ log' = IF op = "process_csv_data"
                   THEN Append(log, Logged("error", "Available columns", df))
                   ELSE log
         /\ Propagate("ValueError", missing)
    ELSE /\ log' = IF op = "process_csv_data"
                   THEN Append(log, Logged("info", found, col))
                   ELSE log
         /\ step' = next
         /\ UNCHANGED << pending, outcome >>

\* conductivity_col = find_conductivity_column(df)
TableConductivity ==
    /\ IsTableOp /\ step = "conductivity"
    /\ RequiredColumn(find_conductivity_column(df),
                      "No conductivity column found in the data",
                      "Found conductivity column", "ph")
    /\ UNCHANGED << parser, raised, archive_file, op, tempfiles, tabular >>

\* ph_col = find_ph_column(df); process_excel_data then reads df['R']
TablePh ==
    /\ IsTableOp /\ step = "ph"
    /\ RequiredColumn(find_ph_column(df),
                      "No pH column found in the data",
                      "Found pH column",
                      IF op = "process_csv_data" THEN "temperature"
                      ELSE "stirring")
    /\ UNCHANGED << parser, raised, archive_file, op, tempfiles, tabular >>

\* stirring_speed = df['R']
ExcelStirring ==
    /\ op = "process_excel_data" /\ step = "stirring"
    /\ IF \E k \in 1..Len(df) : df[k] = <<"R">>
       THEN step' = "temperature" /\ UNCHANGED << pending, outcome >>
       ELSE Propagate("KeyError", "R")
    /\ UNCHANGED << parser, raised, archive_file, op, tempfiles, log,
                    tabular >>

\* temp_col = find_temperature_column(df)
TableTemperature ==
    /\ IsTableOp /\ step = "temperature"
    /\ RequiredColumn(find_temperature_column(df),
                      "No temperature column found in the data",
                      "Found temperature column", "plot")
    /\ UNCHANGED << parser, raised, archive_file, op, tempfiles, tabular >>

\* The figure is made of the four columns and returned
TablePlot ==
    /\ IsTableOp /\ step = "plot"
    /\ outcome' = Return([calcium_nitrate |-> find_calcium_nitrate_column(df),
                          conductivity |-> find_conductivity_column(df),
                          ph |-> find_ph_column(df),
                          temperature |-> find_temperature_column(df)])
    /\ step' = "done"
    /\ UNCHANGED << parser, raised, archive_file, op, tempfiles, pending, log,
                    tabular >>

(***************************************************************************)
(* Specification                                                           *)
(***************************************************************************)
\* No function has been called, no operation started
ParserInit ==
    /\ fn = "" /\ pc = "idle" /\ returned = {} /\ raised = {}
    /\ LocalsInit
    /\ recipe_df = << >> /\ df_chemistry = << >>
    /\ df_setup = << >> /\ df_recipe = << >>

NormalizerInit ==
    /\ op = "" /\ step = "idle"
    /\ tmp_files = {} /\ tmp_count = 0 /\ tmp_file_path = None
    /\ pending = [kind |-> "none"] /\ outcome = [kind |-> "none"]
    /\ log = << >>
    /\ encodings = << >> /\ file_pos = 0 /\ df = << >>

\* The two functions called directly on a document
Init ==
    /\ pdf \in Pdfs
    /\ archive_file = "" /\ columns = << >>
    /\ ParserInit
    /\ NormalizerInit

Next ==
    \/ CallRecipe
    \/ CallTables
    \/ ExtractPage
    \/ SplitLines
    \/ ExtractRaise
    \/ RecipeLocate
    \/ RecipeSlice
    \/ RecipeFindHeader
    \/ RecipeHeaderDone
    \/ RecipeReconstruct
    \/ RecipeReconstructEnd
    \/ RecipeParse
    \/ RecipeReturn
    \/ TablesLocate
    \/ TablesSlice
    \/ TablesChemistry
    \/ TablesChemistryDone
    \/ TablesSetup
    \/ TablesSetupDone
    \/ TablesFindHeader
    \/ TablesHeaderDone
    \/ TablesReconstruct
    \/ TablesReconstructEnd
    \/ TablesParse
    \/ TablesReturn

Spec == Init /\ [][Next]_vars

\* The reports given to the normalizer
NormPdfs ==
    {<< PageText(st) >> : st \in FullStreams}
    \cup {<< PageText(ReportPage1), PageText(ReportPage2) >>, << >>}

\* The archive holds a report or a table file
InitNormalizer ==
    /\ \/ archive_file = "report" /\ pdf \in NormPdfs /\ columns = << >>
       \/ archive_file = "data" /\ pdf = << >> /\ columns \in Tables
    /\ ParserInit
    /\ NormalizerInit

NextNormalizer ==
    \/ ReportStart
    \/ NormalizeStart
    \/ PdfOpen
    \/ PdfCreateTemp
    \/ PdfWriteTemp
    \/ PdfCallExtract
    \/ PdfExtracted
    \/ PdfFinally
    \/ PdfExcept
    \/ CsvStart
    \/ ExcelStart
    \/ TableOpen
    \/ CsvReadUtf8
    \/ CsvSeek
    \/ CsvReadLatin1
    \/ CsvPrepare
    \/ ExcelRead
    \/ ExcelPrepare
    \/ TableCalcium
    \/ TableConductivity
    \/ TablePh
    \/ ExcelStirring
    \/ TableTemperature
    \/ TablePlot
    \/ ExtractPage
    \/ SplitLines
    \/ ExtractRaise
    \/ RecipeLocate
    \/ RecipeSlice
    \/ RecipeFindHeader
    \/ RecipeHeaderDone
    \/ RecipeReconstruct
    \/ RecipeReconstructEnd
    \/ RecipeParse
    \/ RecipeReturn
    \/ TablesLocate
    \/ TablesSlice
    \/ TablesChemistry
    \/ TablesChemistryDone
    \/ TablesSetup
    \/ TablesSetupDone
    \/ TablesFindHeader
    \/ TablesHeaderDone
    \/ TablesReconstruct
    \/ TablesReconstructEnd
    \/ TablesParse
    \/ TablesReturn

\* The normalizers on the files of an archive
SpecNormalizer == InitNormalizer /\ [][NextNormalizer]_vars

(***************************************************************************)
(* Properties                                                              *)
(***************************************************************************)

\* The line stream of the document: the page texts, each followed by a
\* newline, split at the newlines
DocLines ==
    SplitOn(IF Len(pdf) = 0 THEN << >>
            ELSE IF Len(pdf) = 1 THEN pdf[1] \o <<"\n">>
            ELSE pdf[1] \o <<"\n">> \o pdf[2] \o <<"\n">>, "\n")

\* Whether some line of the stream is the marker once trimmed
Present(marker) ==
    LET ls == DocLines
    IN  \E k \in 1..Len(ls) : Strip(ls[k]) = marker
Absent(marker) == ~Present(marker)

\* Whether a row has the given value in the given column
HasField(row, column, value) == column \in DOMAIN row /\ row[column] = value

\* 'Heat to target and hold'
TextHeat ==
    <<"H","e","a","t"," ","t","o"," ","t","a","r","g","e","t"," ","a","n","d",
      " ","h","o","l","d">>

\* 'EuCl3'
TextChemical ==
    <<"E","u","C","l","3">>

\* '50 g/mol'
TextMolWeight ==
    <<"5","0"," ","g","/","m","o","l">>

\* '0.4 mol'
TextActualMoles ==
    <<"0",".","4"," ","m","o","l">>

\* '20 g'
TextActualAmount ==
    <<"2","0"," ","g">>

\* '100 w/w%'
TextConcentration ==
    <<"1","0","0"," ","w","/","w","%">>

\* The document of the chemistry scenario, closed by the "3 Setup" marker
ScenarioChemistry ==
    << PageText(<< MarkerChemistry, ChemHeader1, ChemHeader2, ChemEuCl3,
                   MarkerSetup >>) >>

\* The fields of a chemistry row as the tokens of its line give them when
\* counted from the right
FieldsFromRight(row, parts) ==
    /\ HasField(row, "Concentration",
                FromEnd(parts, 2) \o <<" ">> \o FromEnd(parts, 1))
    /\ HasField(row, "Actual Amount",
                FromEnd(parts, 4) \o <<" ">> \o FromEnd(parts, 3))
    /\ HasField(row, "Actual Moles",
                FromEnd(parts, 5) \o <<" ","m","o","l">>)
    /\ HasField(row, "Mol Weight",
                FromEnd(parts, 8) \o <<" ">> \o FromEnd(parts, 7))

\* C1: every chemistry record of extract_tables_from_report carries the
\* fields of a data line of 8 or more tokens counted from the right (the
\* last two tokens the concentration, the fourth- and third-to-last the
\* actual amount, the fifth-to-last the actual moles, the eighth-from-end
\* the molar weight), and the section whose only data line is
\* "EuCl3 Other 50 g/mol - 0.4 20 g 100 w/w%" yields exactly one record,
\* with Chemical 'EuCl3', Mol Weight '50 g/mol', Actual Moles '0.4 mol',
\* Actual Amount '20 g' and Concentration '100 w/w%'.
C1_ChemistryFieldsFromRight ==
    FnTables \in returned =>
        /\ \A r \in 1..Len(df_chemistry) :
               \E k \in 1..Len(DocLines) :
                   /\ Len(Split(DocLines[k])) >= 8
                   /\ FieldsFromRight(df_chemistry[r], Split(DocLines[k]))
        /\ pdf = ScenarioChemistry =>
               /\ Len(df_chemistry) = 1
               /\ HasField(df_chemistry[1], "Chemical", TextChemical)
               /\ HasField(df_chemistry[1], "Mol Weight", TextMolWeight)
               /\ HasField(df_chemistry[1], "Actual Moles", TextActualMoles)
               /\ HasField(df_chemistry[1], "Actual Amount", TextActualAmount)
               /\ HasField(df_chemistry[1], "Concentration", TextConcentration)

\* C2: no chemistry record of extract_tables_from_report has an actual-moles
\* value that parses to a number less than or equal to 0 (or does not parse).
C2_ChemistryMolesPositive ==
    FnTables \in returned =>
        \A r \in 1..Len(df_chemistry) :
            /\ "Actual Moles" \in DOMAIN df_chemistry[r]
            /\ Split(df_chemistry[r]["Actual Moles"]) # << >>
            /\ LET moles == Float(Split(df_chemistry[r]["Actual Moles"])[1])
               IN  moles.ok /\ moles.num > 0

\* The text of a reconstructed entry after its step number
EntryRemainder(entry) == LStrip(SliceFrom(entry, DigitRun(entry)))

\* The time tokens of an entry, in text order
EntryTimes(entry) == FindAllTimes(EntryRemainder(entry))

\* The number of time tokens of the k-th reconstructed entry
TimeCount(k) == Len(EntryTimes(full_entries[k]))

\* The parse loop of either function has emitted its first i records
Parsing == pc = "parse" /\ Len(recipe_data) = i

\* The text before the second-to-last time token, trimmed, followed by a
\* space and the trimmed text after the last time token when there is some
ActionWithTrailingText(remaining) ==
    LET ms == TimeMatches(remaining)
        before == Strip(SubSeq(remaining, 1, ms[Len(ms) - 1]))
        after == Strip(SubSeq(remaining, ms[Len(ms)] + 9, Len(remaining)))
    IN  IF after = << >> THEN before ELSE before \o <<" ">> \o after

\* C3: in both functions, the action text of an entry with two or more time
\* tokens is the text before the second-to-last token, followed by a space
\* and the text after the last token whenever that text is not empty.
C3_TrailingTextKept ==
    pc = "parse" =>
        /\ Len(recipe_data) = i
        /\ \A k \in 1..i :
               TimeCount(k) >= 2 =>
                   recipe_data[k]["Action/Annotation"] =
                       ActionWithTrailingText(EntryRemainder(full_entries[k]))

\* C4 as claimed: the action text of every entry, whatever the number of its
\* time tokens, contains no time token.
C4_NoTimeInActionText ==
    pc = "parse" =>
        /\ Len(recipe_data) = i
        /\ \A k \in 1..i :
               FindAllTimes(recipe_data[k]["Action/Annotation"]) = << >>

\* C4 (amended): the action text of every entry with zero or exactly two
\* time tokens contains no time token.
C4_NoTimeInActionTextOfTwo ==
    pc = "parse" =>
        /\ Len(recipe_data) = i
        /\ \A k \in 1..i :
               TimeCount(k) \in {0, 2} =>
                   FindAllTimes(recipe_data[k]["Action/Annotation"]) = << >>

\* An entry with exactly two time tokens and text after them has been parsed
\* by extract_recipe_from_pdf
C4_Witness ==
    /\ fn = FnRecipe /\ Parsing
    /\ \E k \in 1..i :
           /\ TimeCount(k) = 2
           /\ ~EndsWith(full_entries[k], FromEnd(EntryTimes(full_entries[k]), 1))

\* C5: the Start Time of an entry with two or more time tokens is its
\* second-to-last token and the End Time its last token, in text order.
C5_LastTwoTimes ==
    pc = "parse" =>
        /\ Len(recipe_data) = i
        /\ \A k \in 1..i :
               LET times == EntryTimes(full_entries[k])
                   n == Len(times)
               IN  n >= 2 =>
                       /\ recipe_data[k]["Start Time"] = times[n - 1]
                       /\ recipe_data[k]["End Time"] = times[n]

\* An entry with three time tokens, the first different from the last two,
\* has been parsed
C5_Witness ==
    /\ Parsing
    /\ \E k \in 1..i :
           /\ TimeCount(k) >= 3
           /\ EntryTimes(full_entries[k])[1] # recipe_data[k]["Start Time"]

\* C6: an entry with zero or one time token gives empty Start Time and End
\* Time and the entire remainder as action text; "7 Heat to target and hold"
\* gives '#' '7', action 'Heat to target and hold' and empty times.
C6_FewerThanTwoTimes ==
    pc = "parse" =>
        /\ Len(recipe_data) = i
        /\ \A k \in 1..i :
               /\ TimeCount(k) < 2 =>
                      /\ recipe_data[k]["Start Time"] = << >>
                      /\ recipe_data[k]["End Time"] = << >>
                      /\ recipe_data[k]["Action/Annotation"] =
                             EntryRemainder(full_entries[k])
               /\ full_entries[k] = RecHeat =>
                      recipe_data[k] =
                          RecipeRow(<<"7">>, TextHeat, << >>, << >>)

\* An entry without time token and an entry with exactly one have been parsed
C6_Witness ==
    /\ Parsing
    /\ \E k \in 1..i : full_entries[k] = RecHeat
    /\ \E k \in 1..i : TimeCount(k) = 1

\* The trimmed lines among ls that start with a step number, in order
StepLinesOf(ls) == SelectSeq([k \in 1..Len(ls) |-> Strip(ls[k])], IsStepLine)

\* The leading step numbers of those lines
StepNumbersOf(ls) ==
    LET sl == StepLinesOf(ls)
    IN  [k \in 1..Len(sl) |-> SubSeq(sl[k], 1, DigitRun(sl[k]))]

\* C7: the '#' values of the recipe records are the leading step numbers of
\* the step-prefixed lines after the column-header row, in the same order
\* and unchanged.
C7_StepNumbersInOrder ==
    (pc = "parse" /\ i = Len(full_entries)) =>
        [k \in 1..Len(recipe_data) |-> recipe_data[k]["#"]] =
            StepNumbersOf(SliceFrom(recipe_lines, data_start))

\* extract_tables_from_report has parsed the steps 7 and 1, in that order
C7_Witness ==
    /\ fn = FnTables /\ pc = "parse" /\ i = Len(full_entries)
    /\ [k \in 1..Len(recipe_data) |-> recipe_data[k]["#"]] = << <<"7">>, <<"1">> >>

\* The index of the last of the first n lines that is the marker once
\* trimmed, None when there is none
LastMarker(ls, n, marker) ==
    LET P == {k \in 0..(n - 1) : Strip(At(ls, k)) = marker}
    IN  IF P = {} THEN None ELSE CHOOSE k \in P : \A h \in P : h <= k

\* C8: a marker is recognised only on a line that equals it once trimmed,
\* and the index kept for it is that of its last occurrence; the section
\* ranges are cut at these indices.
C8_MarkerLastExactLine ==
    /\ pc = "locate" =>
           /\ recipe_start = LastMarker(lines, i, MarkerRecipe)
           /\ trend_start = LastMarker(lines, i, MarkerTrend)
           /\ fn = FnTables =>
                  /\ chemistry_start = LastMarker(lines, i, MarkerChemistry)
                  /\ setup_start = LastMarker(lines, i, MarkerSetup)
    /\ pc = "chemistry" =>
           LET n == Len(lines)
               c == LastMarker(lines, n, MarkerChemistry)
               s == LastMarker(lines, n, MarkerSetup)
               r == LastMarker(lines, n, MarkerRecipe)
               t == LastMarker(lines, n, MarkerTrend)
           IN  /\ setup_lines =
                      IF s # None /\ r # None THEN Slice(lines, s, r) ELSE << >>
               /\ recipe_lines =
                      IF r # None /\ t # None THEN Slice(lines, r, t) ELSE << >>

\* The scan has ended on a stream in which "4 Recipe" occurs twice and a
\* line only contains it: the second occurrence is kept
C8_Witness ==
    /\ pc = "locate" /\ i = Len(lines)
    /\ \E a, b, c \in 0..(Len(lines) - 1) :
           /\ a < b /\ b < c
           /\ Strip(At(lines, a)) = MarkerRecipe
           /\ Strip(At(lines, b)) = MarkerRecipe
           /\ At(lines, c) = RecipeNotes
           /\ recipe_start = b

\* C9: when a bounding marker of a section is absent from the line stream,
\* extract_tables_from_report returns no record for that section (stated as:
\* the section's records are none, or both of its markers are present).
C9_MissingMarkerEmptySection ==
    FnTables \in returned =>
        /\ df_chemistry = << >>
               \/ (Present(MarkerChemistry) /\ Present(MarkerSetup))
        /\ df_setup = << >>
               \/ (Present(MarkerSetup) /\ Present(MarkerRecipe))
        /\ df_recipe = << >>
               \/ (Present(MarkerRecipe) /\ Present(MarkerTrend))

\* extract_tables_from_report has returned for a stream with "2 Chemistry",
\* the two header lines and a data row of a used reagent, but no "3 Setup"
C9_Witness ==
    /\ FnTables \in returned
    /\ Present(MarkerChemistry) /\ Absent(MarkerSetup)
    /\ \E k \in 1..Len(DocLines) : DocLines[k] = ChemEuCl3
    /\ df_chemistry = << >>

\* C10: for a stream with "4 Recipe" and no "5 Trend Graphs",
\* extract_recipe_from_pdf takes the section to the end of the stream: the
\* steps after the column-header row are emitted.
C10_RecipeToEndOfStream ==
    (/\ FnRecipe \in returned
     /\ Present(MarkerRecipe) /\ Absent(MarkerTrend)) =>
        LET r == LastMarker(DocLines, Len(DocLines), MarkerRecipe)
            sec == SliceFrom(DocLines, r + 1)
            H == {k \in 1..Len(sec) : IsHeaderRow(sec[k])}
        IN  H # {} =>
                [k \in 1..Len(recipe_df) |-> recipe_df[k]["#"]] =
                    StepNumbersOf(
                        SliceFrom(sec, CHOOSE k \in H : \A h \in H : k <= h))

\* The indices of the lines that are the marker once trimmed
Occurrences(ls, marker) ==
    {k \in 0..(Len(ls) - 1) : Strip(At(ls, k)) = marker}

\* The four markers occur once each in the line stream and in order
WellFormed(ls) ==
    /\ \A m \in {MarkerChemistry, MarkerSetup, MarkerRecipe, MarkerTrend} :
           Cardinality(Occurrences(ls, m)) = 1
    /\ LastMarker(ls, Len(ls), MarkerChemistry)
           < LastMarker(ls, Len(ls), MarkerSetup)
    /\ LastMarker(ls, Len(ls), MarkerSetup)
           < LastMarker(ls, Len(ls), MarkerRecipe)
    /\ LastMarker(ls, Len(ls), MarkerRecipe)
           < LastMarker(ls, Len(ls), MarkerTrend)

\* C11: for a line stream with the four markers once each and in order, the
\* sections of extract_tables_from_report are the lines strictly between
\* consecutive markers: each ends at the marker line at which the next one
\* starts, and together with the three marker lines they make up the stream
\* from "2 Chemistry" up to "5 Trend Graphs" with no line counted twice.
C11_SectionsContiguous ==
    (fn = FnTables /\ pc \in {"chemistry", "setup", "header"}
        /\ WellFormed(lines)) =>
        LET n == Len(lines)
            c == LastMarker(lines, n, MarkerChemistry)
            s == LastMarker(lines, n, MarkerSetup)
            r == LastMarker(lines, n, MarkerRecipe)
            t == LastMarker(lines, n, MarkerTrend)
        IN  /\ chemistry_lines = Slice(lines, c + 1, s)
            /\ setup_lines =
                   Slice(lines, IF pc = "chemistry" THEN s ELSE s + 1, r)
            /\ recipe_lines =
                   Slice(lines, IF pc = "header" THEN r + 1 ELSE r, t)
            /\ pc = "header" =>
                   << At(lines, c) >> \o chemistry_lines
                       \o << At(lines, s) >> \o setup_lines
                       \o << At(lines, r) >> \o recipe_lines
                       = Slice(lines, c, t)

\* extract_tables_from_report has cut three non-empty sections out of a
\* stream with the four markers in order
C11_Witness ==
    /\ fn = FnTables /\ pc = "header" /\ WellFormed(lines)
    /\ chemistry_lines # << >> /\ setup_lines # << >>
    /\ recipe_lines # << >>

\* C12 as claimed: whenever both bounding markers of a section are found,
\* at any positions, start < end, where start is the index of the section's
\* marker plus one and end the index of the following marker.
C12_StartBeforeEnd ==
    (fn = FnTables /\ pc = "chemistry") =>
        /\ (chemistry_start # None /\ setup_start # None) =>
               chemistry_start + 1 < setup_start
        /\ (setup_start # None /\ recipe_start # None) =>
               setup_start + 1 < recipe_start
        /\ (recipe_start # None /\ trend_start # None) =>
               recipe_start + 1 < trend_start

\* The number of lines of the range from start up to end
RangeLen(start, end) == IF start < end THEN end - start ELSE 0

\* C12 (amended): whenever both bounding markers of a section are found,
\* the section handed to its builder holds the lines from start up to end:
\* end - start lines when start < end, and none when the markers are
\* adjacent or out of order.
C12_RangeEmptyUnlessOrdered ==
    fn = FnTables =>
        /\ (pc = "chemistry" /\ chemistry_start # None
                /\ setup_start # None) =>
               /\ chemistry_lines =
                      Slice(lines, chemistry_start + 1, setup_start)
               /\ Len(chemistry_lines) =
                      RangeLen(chemistry_start + 1, setup_start)
        /\ (pc = "setup" /\ setup_start # None /\ recipe_start # None) =>
               /\ setup_lines = Slice(lines, setup_start + 1, recipe_start)
               /\ Len(setup_lines) = RangeLen(setup_start + 1, recipe_start)
        /\ (pc = "header" /\ recipe_start # None /\ trend_start # None) =>
               /\ recipe_lines = Slice(lines, recipe_start + 1, trend_start)
               /\ Len(recipe_lines) = RangeLen(recipe_start + 1, trend_start)

\* The setup loop starts on a stream in which "4 Recipe" comes two lines
\* before "3 Setup"
C12_Witness ==
    /\ fn = FnTables /\ pc = "setup"
    /\ setup_start # None /\ recipe_start # None
    /\ recipe_start + 1 < setup_start
    /\ setup_lines = << >>

\* The lines of the document between its last "3 Setup" and its last
\* "4 Recipe" line, none when one of them is missing
SetupSectionOfDoc ==
    LET ls == DocLines
        s == LastMarker(ls, Len(ls), MarkerSetup)
        r == LastMarker(ls, Len(ls), MarkerRecipe)
    IN  IF s # None /\ r # None THEN Slice(ls, s + 1, r) ELSE << >>

\* 'Reactor'
TextReactor ==
    <<"R","e","a","c","t","o","r">>

\* '500 mL glass vessel with baffle'
TextVesselWithBaffle ==
    <<"5","0","0"," ","m","L"," ","g","l","a","s","s"," ","v","e","s","s",
      "e","l"," ","w","i","t","h"," ","b","a","f","f","l","e">>

\* The trimmed non-blank lines among ls, in order
NonBlank(ls) ==
    SelectSeq([k \in 1..Len(ls) |-> Strip(ls[k])], LAMBDA l : l # << >>)

\* The index of the last of the first n lines that starts a component with
\* a colon, None when there is none
LastComponentLine(ls, n) ==
    LET P == {k \in 0..(n - 1) : IsComponentLine(Strip(At(ls, k)))}
    IN  IF P = {} THEN None ELSE CHOOSE k \in P : \A h \in P : h <= k

\* C13: while the setup loop runs, the description of the component opened
\* by the last colon line is its trimmed initial text and all later
\* non-blank lines, trimmed, joined by single spaces (blank lines left out);
\* and the section "Reactor: 500 mL glass vessel", "with baffle", with or
\* without a blank line in between, gives the one record Component
\* 'Reactor', Description '500 mL glass vessel with baffle'.
C13_ContinuationJoined ==
    /\ (fn = FnTables /\ pc = "setup") =>
           LET j == LastComponentLine(setup_lines, i)
           IN  j # None =>
                   LET parts == SplitOnce(Strip(At(setup_lines, j)), ":")
                   IN  /\ current_component = Strip(parts[1])
                       /\ current_description =
                              Join(<< Strip(parts[2]) >>
                                       \o NonBlank(Slice(setup_lines, j + 1, i)),
                                   <<" ">>)
    /\ (FnTables \in returned
            /\ NonBlank(SetupSectionOfDoc) = << SetupReactor, SetupBaffle >>) =>
           df_setup = << SetupRow(TextReactor, TextVesselWithBaffle) >>

\* extract_tables_from_report has returned the record of the scenario for a
\* section with a blank line between the two lines
C13_Witness ==
    /\ FnTables \in returned
    /\ SetupSectionOfDoc = << SetupReactor, Blank, SetupBaffle >>
    /\ df_setup = << SetupRow(TextReactor, TextVesselWithBaffle) >>

\* A letter, a digit or an underscore
IsWordChar(c) == IsAlpha(c) \/ IsDigit(c) \/ c = "_"

RECURSIVE WordRun(_)
\* The length of the longest prefix of s made of word characters
WordRun(s) ==
    IF s # << >> /\ IsWordChar(Head(s)) THEN 1 + WordRun(Tail(s)) ELSE 0

\* The line starts with word characters followed by a colon
IsWordColonLine(line) ==
    LET n == WordRun(line)
    IN  n >= 1 /\ Len(line) > n /\ line[n + 1] = ":"

\* C14: in the setup loop, every line that starts with word characters
\* (letters, digits, underscores) followed by a colon has just opened a
\* component: the name is the trimmed text before the first colon and the
\* description so far the trimmed text after it.
C14_WordColonStartsComponent ==
    (fn = FnTables /\ pc = "setup" /\ i > 0) =>
        LET line == Strip(At(setup_lines, i - 1))
        IN  IsWordColonLine(line) =>
                LET parts == SplitOnce(line, ":")
                IN  /\ current_component = Strip(parts[1])
                    /\ current_description = Strip(parts[2])

\* The data lines of the chemistry section of the document: the lines
\* between its last "2 Chemistry" and its last "3 Setup" line after the two
\* header lines, none when a marker is missing
ChemistryDataOfDoc ==
    LET ls == DocLines
        c == LastMarker(ls, Len(ls), MarkerChemistry)
        s == LastMarker(ls, Len(ls), MarkerSetup)
    IN  IF c # None /\ s # None THEN Slice(ls, c + 3, s) ELSE << >>

\* The actual-moles token of a data line of 8 or more tokens, the
\* fifth-to-last, parses as a number
MolesParse(line) ==
    LET parts == Split(Strip(line))
    IN  Len(parts) >= 8 /\ Float(FromEnd(parts, 5)).ok

\* C15: a chemistry data line whose actual-moles token does not parse as a
\* number gives no record: extract_tables_from_report returns at most as
\* many chemistry records as there are data lines of 8 or more tokens whose
\* actual-moles token parses.
C15_UnparsedMolesSkipped ==
    FnTables \in returned =>
        LET data == ChemistryDataOfDoc
        IN  Len(df_chemistry)
                <= Cardinality({k \in 1..Len(data) : MolesParse(data[k])})

\* 'Other'
TextOther ==
    <<"O","t","h","e","r">>

\* The name tokens of a data line: the tokens before the eighth-from-last,
\* without a final classification tag "Other"
NameTokens(parts) ==
    LET before == Slice(parts, 0, Len(parts) - 8)
    IN  IF before # << >> /\ FromEnd(before, 1) = TextOther
        THEN Slice(before, 0, Len(before) - 1)
        ELSE before

\* C16: the chemical name of every chemistry record is the space-joined
\* tokens of a data line that precede its eighth-from-last token, without
\* the classification tag "Other" when that is the last of them; no name
\* ends with the token "Other".
C16_NameWithoutOther ==
    FnTables \in returned =>
        \A r \in 1..Len(df_chemistry) :
            LET data == ChemistryDataOfDoc
                name == df_chemistry[r]["Chemical"]
            IN  /\ \E k \in 1..Len(data) :
                       LET parts == Split(Strip(data[k]))
                       IN  /\ Len(parts) >= 8
                           /\ name = Join(NameTokens(parts), <<" ">>)
                /\ Split(name) # << >> =>
                       FromEnd(Split(name), 1) # TextOther

\* C17: when process_pdf_report or the recipe branch of MRO004.normalize
\* has ended, on whichever path, no temporary file that the call created
\* still exists
C17_TempFileRemoved ==
    (IsPdfOp /\ step = "done") => tmp_files = {}

\* C18 as stated: when the extraction library fails, process_pdf_report
\* ends with that exception, surfaced once, and returns no substitute result
C18_FailurePropagates ==
    (op = "process_pdf_report" /\ step = "done" /\ FnTables \in raised)
        => /\ outcome.kind = "raise"
           /\ Len(log) <= 1

\* What an operation on a PDF file gives its caller in place of a result
Substitute ==
    IF op = "process_pdf_report"
    THEN Return([chemicals |-> << >>, steps |-> << >>])
    ELSE Return(None)

\* C18 amended: a failure of the extraction library ends the parser
\* function at once, without a table and without a second call; the
\* operation catches it, removes the temporary file, logs one warning that
\* carries the exception, and gives its caller the empty substitute result
C18_FailureLoggedAndSubstituted ==
    (IsPdfOp /\ PdfFunction \in raised)
        => /\ fn = "" /\ pc = "idle" /\ returned = {}
           /\ recipe_df = << >> /\ df_chemistry = << >>
           /\ df_setup = << >> /\ df_recipe = << >>
           /\ step \in {"extracting", "finally", "except", "done"}
           /\ step = "done"
                  => /\ outcome.kind = "return" /\ outcome = Substitute
                     /\ Len(log) = 1
                     /\ log[1].level = "warning"
                     /\ log[1].arg.type = "PDFSyntaxError"
                     /\ tmp_files = {}

C18_Witness ==
    /\ op = "process_pdf_report" /\ step = "done" /\ FnTables \in raised
    /\ outcome = Return([chemicals |-> << >>, steps |-> << >>])

\* The message of the first required column that the table lacks, in the
\* order the operations look for them ("" when it has all four)
FirstMissing(cols) ==
    IF find_calcium_nitrate_column(cols) = NoColumn
    THEN "No column starting with 'Ca(NO3)2' found in the data"
    ELSE IF find_conductivity_column(cols) = NoColumn
    THEN "No conductivity column found in the data"
    ELSE IF find_ph_column(cols) = NoColumn
    THEN "No pH column found in the data"
    ELSE IF find_temperature_column(cols) = NoColumn
    THEN "No temperature column found in the data"
    ELSE ""

\* The table was read and has the columns the operation reads by their
\* fixed names before it looks for the missing one
FixedColumnsRead ==
    LET Has(name) == \E k \in 1..Len(df) : df[k] = name
    IN  /\ IsTableOp /\ step = "done" /\ df # << >>
        /\ op = "process_csv_data"
               => Has(<<"E","x","p","e","r","i","m","e","n","t"," ",
                        "T","i","m","e">>)
        /\ op = "process_excel_data"
               => /\ Has(<<"p","r","o","c","e","s","s","_","t","i","m","e">>)
                  /\ FirstMissing(df) = "No temperature column found in the data"
                         => Has(<<"R">>)

\* C19: when a required column is absent, process_csv_data and
\* process_excel_data end with an error that names the column that was not
\* found, and the list of the table's columns is reported with it
C19_MissingColumnReported ==
    (FixedColumnsRead /\ FirstMissing(df) # "")
        => /\ outcome.kind = "raise"
           /\ outcome.exc.type = "ValueError"
           /\ outcome.exc.msg = FirstMissing(df)
           /\ \E k \in 1..Len(log) :
                  /\ log[k].level = "error"
                  /\ log[k].msg = "Available columns"
                  /\ log[k].arg = df

\* C20: process_csv_data reads the file as UTF-8 first; it reads a second
\* time, as latin-1, only while a UTF-8 decoding failure is being handled
\* and the stream is back at its start; there is no third read; a failure
\* of the second read, or a failure of the first that is not a decoding
\* failure, ends the operation with that exception; and an operation that
\* has ended does nothing more
C20_OneFallbackAttempt ==
    [][op = "process_csv_data"
          => /\ step # "done"
             /\ encodings' # encodings
                    => /\ \/ /\ encodings = << >>
                             /\ encodings' = << "utf-8" >>
                          \/ /\ encodings = << "utf-8" >>
                             /\ encodings' = << "utf-8", "latin-1" >>
                             /\ pending.kind = "raise"
                             /\ pending.exc.type = "UnicodeDecodeError"
                             /\ file_pos = 0
                       /\ \/ step' = "prepare" /\ df' = columns
                          \/ /\ encodings = << >>
                             /\ step' = "seek"
                             /\ pending'.kind = "raise"
                             /\ pending'.exc.type = "UnicodeDecodeError"
                          \/ /\ step' = "done"
                             /\ outcome'.kind = "raise"
                             /\ outcome'.exc.type # "UnicodeDecodeError"]_vars

C20_Witness ==
    /\ op = "process_csv_data" /\ step = "done"
    /\ encodings = << "utf-8", "latin-1" >>
    /\ outcome.kind = "raise"


\* The columns of a chemistry row that the test asserts and that
\* _process_chemistry_data reads
ConsumedColumns ==
    {"Chemical", "Mol Weight", "Actual Amount", "Actual Moles",
     "Concentration"}

\* C21: every chemistry record returned by extract_tables_from_report has
\* the columns 'Chemical', 'Mol Weight', 'Actual Amount', 'Actual Moles'
\* and 'Concentration'
C21_ConsumedColumnsPresent ==
    FnTables \in returned =>
        \A r \in 1..Len(df_chemistry) :
            ConsumedColumns \subseteq DOMAIN df_chemistry[r]


\* A trimmed line that can open a standalone component: not blank, not a
\* colon-labelled line, and not ending with the word "Description"
IsStandaloneLine(line) ==
    line # << >> /\ ~IsComponentLine(line) /\ ~EndsWith(line, WordDescription)

\* The indices of the lines of a setup section that open a component: the
\* colon-labelled lines, and a standalone line with no colon-labelled or
\* standalone line before it
Openings(ls) ==
    {k \in 0..(Len(ls) - 1) :
        LET line == Strip(At(ls, k))
        IN  \/ IsComponentLine(line)
            \/ /\ IsStandaloneLine(line)
               /\ \A j \in 0..(k - 1) :
                      /\ ~IsComponentLine(Strip(At(ls, j)))
                      /\ ~IsStandaloneLine(Strip(At(ls, j)))}

\* The record of the component opened by line k: its name, and its initial
\* text with the non-blank lines up to the next opening, joined by spaces
ComponentRecord(ls, k) ==
    LET line == Strip(At(ls, k))
        colon == IsComponentLine(line)
        parts == SplitOnce(line, ":")
        later == {j \in Openings(ls) : j > k}
        next == IF later = {} THEN Len(ls) ELSE Nth(later, 1)
    IN  SetupRow(IF colon THEN Strip(parts[1]) ELSE line,
                 Strip(Join(<< IF colon THEN Strip(parts[2]) ELSE << >> >>
                                \o NonBlank(Slice(ls, k + 1, next)),
                            <<" ">>)))

\* One record per opening, in the order of the lines
ComponentRecords(ls) ==
    LET O == Openings(ls)
    IN  [n \in 1..Cardinality(O) |-> ComponentRecord(ls, Nth(O, n))]

\* C22: after every iteration of the setup loop the records emitted,
\* followed by the one of the component still open, are exactly the records
\* of the components opened so far, in document order and each with the
\* description accumulated up to the next opening; after the loop the table
\* holds one record per opening, the last open component included, and is
\* empty when no component was opened.
C22_OneRecordPerComponent ==
    /\ (fn = FnTables /\ pc = "setup") =>
           setup_data
               \o (IF current_component # << >>
                   THEN << SetupRow(current_component,
                                    Strip(current_description)) >>
                   ELSE << >>)
             = ComponentRecords(Slice(setup_lines, 0, i))
    /\ (fn = FnTables /\ pc \in {"header", "reconstruct", "parse", "return"})
           => /\ df_setup = ComponentRecords(setup_lines)
              /\ Len(df_setup) = Cardinality(Openings(setup_lines))

\* The table of a section with a standalone component followed by a
\* colon-labelled one has been built: two records
C22_Witness ==
    /\ fn = FnTables /\ pc = "header"
    /\ NonBlank(setup_lines) = << SetupStirrer, SetupReactor >>
    /\ Len(df_setup) = 2
    /\ df_setup[1] = SetupRow(SetupStirrer, << >>)
    /\ df_setup[2]["Component"] = TextReactor


\* C23: an iteration of the setup loop that starts with no component open
\* and whose line does not match the colon pattern makes the trimmed line
\* the open component, with an empty description, exactly when the line is
\* not blank and does not end with "Description"; otherwise no component
\* is open after it; in both cases no record is emitted and no text is
\* kept for a description.
C23_StandaloneUnlessDescription ==
    [][(fn = FnTables /\ pc = "setup" /\ i < Len(setup_lines)
            /\ current_component = << >>
            /\ ~IsComponentLine(Strip(At(setup_lines, i))))
          => LET line == Strip(At(setup_lines, i))
             IN  /\ current_component' =
                        IF line # << >> /\ ~EndsWith(line, WordDescription)
                        THEN line ELSE << >>
                 /\ current_description' = << >>
                 /\ setup_data' = setup_data]_vars

\* The loop has passed the line "Component Description" without opening a
\* component and has made the next line, "Stirrer", a standalone component
C23_Witness ==
    /\ fn = FnTables /\ pc = "setup" /\ i = 2
    /\ At(setup_lines, 0) = SetupHeader
    /\ At(setup_lines, 1) = SetupStirrer
    /\ current_component = SetupStirrer
    /\ current_description = << >> /\ setup_data = << >>


\* The indices of the lines that start with a step number once trimmed
StepIndices(ls) == {k \in 0..(Len(ls) - 1) : IsStepLine(Strip(At(ls, k)))}

\* The entries of the data lines of a recipe section: each step-prefixed
\* line with the non-blank lines up to the next step-prefixed line, all
\* trimmed and joined by single spaces
EntriesOf(ls) ==
    LET S == StepIndices(ls)
        n == Cardinality(S)
    IN  [e \in 1..n |->
            Join(NonBlank(Slice(ls, Nth(S, e),
                                IF e = n THEN Len(ls) ELSE Nth(S, e + 1))),
                 <<" ">>)]

\* C24: in both functions, after every iteration of the reconstruction
\* loop the entries saved, followed by the entry being built, are the
\* entries of the lines read so far, and after the loop full_entries holds
\* the entries of all data lines: each is one step-prefixed line and the
\* non-blank lines that follow it up to the next step-prefixed line,
\* joined by single spaces.
C24_EntryIsStepLineWithContinuations ==
    /\ pc = "reconstruct" =>
           full_entries
               \o (IF current_entry # << >> THEN << current_entry >>
                   ELSE << >>)
             = EntriesOf(Slice(SliceFrom(recipe_lines, data_start), 0, i))
    /\ pc = "parse" =>
           full_entries = EntriesOf(SliceFrom(recipe_lines, data_start))

\* '7 Heat to target and hold and hold'
TextHeatAndHold ==
    RecHeat \o <<" ">> \o RecHold

\* The entries of the section "7 Heat to target and hold", a blank line,
\* "and hold", "1 Add water 10:00:00 10:05:00" have been reconstructed
C24_Witness ==
    /\ pc = "parse"
    /\ SliceFrom(recipe_lines, data_start)
           = << RecHeat, Blank, RecHold, RecAdd >>
    /\ full_entries = << TextHeatAndHold, RecAdd >>


\* The index of the first line that contains "#", "Action", "Start" and
\* "End", None when there is none
FirstHeaderRow(ls) ==
    LET H == {k \in 0..(Len(ls) - 1) : IsHeaderRow(At(ls, k))}
    IN  IF H = {} THEN None ELSE Nth(H, 1)

\* C25: in both functions the entries are reconstructed and parsed only
\* when the section has a column-header row, and from the line after the
\* first one; the records are those of the step-prefixed lines after that
\* row, so a line at or before it gives no record; and when the section
\* has no such row the recipe output is empty.
C25_DataAfterFirstHeaderRow ==
    LET h == FirstHeaderRow(recipe_lines)
    IN  /\ pc \in {"reconstruct", "parse"} => h # None /\ data_start = h + 1
        /\ (pc = "parse" /\ i = Len(full_entries)) =>
               [k \in 1..Len(recipe_data) |-> recipe_data[k]["#"]] =
                   StepNumbersOf(SliceFrom(recipe_lines, h + 1))
        /\ (pc = "return" \/ (pc = "header" /\ i = Len(recipe_lines)
                                  /\ ~header_found)) =>
               h = None /\ recipe_data = << >>

\* A section with the step line "7 Heat to target and hold" before the
\* column-header row and the step 1 after it has been parsed: one record
C25_Witness ==
    /\ pc = "parse" /\ i = Len(full_entries)
    /\ Slice(recipe_lines, 0, 3) = << RecHeat, RecipeHeader, RecAdd >>
    /\ data_start = 2
    /\ [k \in 1..Len(recipe_data) |-> recipe_data[k]["#"]] = << <<"1">> >>


\* The number of whitespace-separated tokens of a line
TokenCount(line) == Len(Split(Strip(line)))

\* C26: after every iteration of the chemistry loop there is one record
\* for each line read so far that has 8 or more tokens and none for any
\* other line: a non-blank line of fewer than 8 tokens gives no record,
\* raises nothing, and the loop goes on with the next line.
C26_ShortLineSkipped ==
    (fn = FnTables /\ pc = "chemistry") =>
        LET data == SliceFrom(chemistry_lines, 2)
        IN  /\ Len(chemistry_data) =
                   Cardinality({k \in 0..(i - 1) : TokenCount(At(data, k)) >= 8})
            /\ FnTables \notin raised

\* The loop has passed the line "NaOH Other 40 g/mol" (4 tokens) without a
\* record and has made the record of the next line
C26_Witness ==
    /\ fn = FnTables /\ pc = "chemistry" /\ i = 2
    /\ SliceFrom(chemistry_lines, 2) = << ChemShort, ChemEuCl3 >>
    /\ chemistry_data = ChemistryRows(ChemEuCl3)


\* The first column, in column order, that contains the first of the
\* patterns, in list order, that any column contains; None when no column
\* contains any of them
PriorityHit(cols, patterns) ==
    LET hits == {p \in 1..Len(patterns) :
                    \E k \in 1..Len(cols) : Contains(cols[k], patterns[p])}
    IN  IF hits = {} THEN NoColumn
        ELSE LET best == patterns[Nth(hits, 1)]
                 K == {k \in 1..Len(cols) : Contains(cols[k], best)}
             IN  cols[Nth(K, 1)]

\* C27: on every table read, each of the three finders gives the first
\* column that contains the highest-priority pattern found in any column,
\* and None exactly when no column contains any of its patterns; the
\* columns an operation returns are those, and the ValueError for the
\* conductivity column is raised only when no column contains a
\* conductivity pattern.
C27_PriorityOrderFirstHit ==
    IsTableOp =>
        /\ find_conductivity_column(df)
               = PriorityHit(df, conductivity_patterns)
        /\ find_ph_column(df) = PriorityHit(df, ph_patterns)
        /\ find_temperature_column(df) = PriorityHit(df, temp_patterns)
        /\ (step = "done" /\ outcome.kind = "return") =>
               /\ outcome.value.conductivity
                      = PriorityHit(df, conductivity_patterns)
               /\ outcome.value.ph = PriorityHit(df, ph_patterns)
               /\ outcome.value.temperature = PriorityHit(df, temp_patterns)
        /\ (step = "done" /\ outcome.kind = "raise"
                /\ outcome.exc.msg = "No conductivity column found in the data")
               => \A k \in 1..Len(df) : \A p \in 1..Len(conductivity_patterns) :
                      ~Contains(df[k], conductivity_patterns[p])

\* An operation has returned the columns of a table in which the columns
\* of the lower-priority patterns come first: 'Leitfähigkeit', 'pH-Druck'
\* and 'Tr' are found, not 'Conductivity [mS/cm]', 'pH' and 'Temp [C]'
C27_Witness ==
    /\ IsTableOp /\ step = "done" /\ outcome.kind = "return"
    /\ \E a, b, c \in 1..Len(df) :
           /\ Contains(df[a], conductivity_patterns[2])
           /\ Contains(df[b], ph_patterns[2]) /\ df[b] = ph_patterns[2]
           /\ Contains(df[c], temp_patterns[4])
    /\ outcome.value.conductivity = conductivity_patterns[1]
    /\ outcome.value.ph = ph_patterns[1]
    /\ outcome.value.temperature = temp_patterns[1]


\* C28: when both functions have returned for a document, the recipe
\* records of extract_recipe_from_pdf and those of
\* extract_tables_from_report are the same sequence
C28_RecipePathsAgree ==
    (FnRecipe \in returned /\ FnTables \in returned) => recipe_df = df_recipe


\* C29: in both functions every reconstructed entry matches the
\* step-number pattern and has given exactly one record when the parse
\* loop has passed it, so the records are as many as the lines after the
\* column-header row that start with a step number once trimmed.
C29_OneRecordPerEntry ==
    pc = "parse" =>
        /\ \A k \in 1..Len(full_entries) : StepMatch(full_entries[k]).matched
        /\ Len(recipe_data) = i
        /\ i = Len(full_entries) =>
               Len(recipe_data) =
                   Cardinality(StepIndices(SliceFrom(recipe_lines, data_start)))

\* The entries of the lines " 5  Dry 12:00:00 12:30:00<tab>" and
\* "1 Add water 10:00:00 10:05:00" have been parsed: two records
C29_Witness ==
    /\ pc = "parse" /\ i = Len(full_entries)
    /\ SliceFrom(recipe_lines, data_start) = << RecDry, RecAdd >>
    /\ Len(recipe_data) = 2


\* C30: an iteration of the setup loop that starts with a component open
\* leaves a component open; unless its line matches the colon pattern it
\* keeps the component and the records, and appends the trimmed line, when
\* it is not blank, to the open description after a space.  While no
\* component is open nothing has been recorded, so a standalone line opens
\* only the first component of the section.
C30_OpenComponentStaysOpen ==
    [][(fn = FnTables /\ pc = "setup" /\ i < Len(setup_lines))
          => LET line == Strip(At(setup_lines, i))
             IN  /\ current_component = << >> =>
                        setup_data = << >> /\ current_description = << >>
                 /\ current_component # << >> =>
                        /\ current_component' # << >>
                        /\ ~IsComponentLine(line) =>
                               /\ current_component' = current_component
                               /\ setup_data' = setup_data
                               /\ current_description' =
                                      IF line = << >>
                                      THEN current_description
                                      ELSE current_description
                                               \o <<" ">> \o line]_vars

\* The line "Stirrer", which would open a component at the start of the
\* section, has been appended to the description of the open "Reactor"
C30_Witness ==
    /\ fn = FnTables /\ pc = "setup" /\ i = 2
    /\ At(setup_lines, 0) = SetupReactor
    /\ At(setup_lines, 1) = SetupStirrer
    /\ current_component = TextReactor
    /\ current_description = Strip(SplitOnce(SetupReactor, ":")[2])
                                 \o <<" ">> \o SetupStirrer
    /\ setup_data = << >>

=============================================================================
